---------------------------- MODULE Spec2Model ----------------------------
(***************************************************************************)
(* A model of openconfig/lsdbparse: the IS-IS LSP decoder                  *)
(* (ISISBytesToLSP, TLVBytesToTLVs, processTLVs and the per-TLV decoders). *)
(*                                                                         *)
(* Bytes are naturals in 0..255 and a byte slice is a sequence of them.    *)
(* Go indexes from 0 and TLA+ sequences from 1: At and Slice translate.    *)
(* A Go run-time panic (index or slice bounds out of range) is an explicit *)
(* outcome: decoders return a record with a panic field and the state      *)
(* machine moves to pc = "panic".                                          *)
(* An error value is a sequence of messages; the empty sequence is nil.    *)
(* Text (Go strings) is a TLA+ string.                                     *)
(***************************************************************************)
EXTENDS Integers, Sequences, FiniteSets, TLC

VARIABLES
    lspBytes,   \* ISISBytesToLSP's argument lspBytes, as the caller passed it
    offset,     \* ISISBytesToLSP's argument offset
    tlvBytes,   \* the argument of the top-level call of TLVBytesToTLVs
    pc,         \* "start" | "tlvs" | "done" | "panic"
    rawTLVs,    \* isisLSP.rawTLVs
    idx,        \* position of processTLVs' range loop in rawTLVs (1-based)
    lsp,        \* isisLSP.LSP while decoding; the returned LSP once pc = "done"
    parsed,     \* the returned bool
    pErr,       \* processTLVs' errlist
    err,        \* the returned error
    calls,      \* history: the indices of rawTLVs handed to a decoder, in order
    ret,        \* what an operation run by itself returned (<<>> before it ran)
    args        \* the ISISRenderArgs of a rendering (<<>> when nothing is rendered)

vars == <<lspBytes, offset, tlvBytes, pc, rawTLVs, idx, lsp, parsed, pErr, err, calls, ret, args>>

---------------------------------------------------------------------------
(* Bounds of the model. *)

\* Longest byte string the TLV splitter is run on by itself.
MaxTLVBytes == 5

\* Most top-level TLVs chained in one decoded LSP body.
MaxTLVs == 2

---------------------------------------------------------------------------
(* Byte slices. *)

Byte == 0..255

At(b, i) == b[i + 1]

InRange(b, i) == 0 <= i /\ i < Len(b)

Slice(b, lo, hi) == SubSeq(b, lo + 1, hi)

\* The capacity append gives a byte slice grown one byte at a time from nil,
\* as TLVBytesToTLVs grows tlvContents: 8, then doubled.
GoCap(n) ==
    IF n = 0 THEN 0
    ELSE IF n <= 8 THEN 8
    ELSE IF n <= 16 THEN 16
    ELSE IF n <= 32 THEN 32
    ELSE IF n <= 64 THEN 64
    ELSE IF n <= 128 THEN 128
    ELSE 256

\* b[lo:hi] does not panic: Go checks hi against the capacity.
SliceOK(b, lo, hi) == 0 <= lo /\ lo <= hi /\ hi <= GoCap(Len(b))

\* b[lo:hi] of an append-grown slice: the bytes past the length are the zeroes
\* of the backing array.
SliceCap(b, lo, hi) ==
    [k \in 1..(hi - lo) |-> IF lo + k <= Len(b) THEN b[lo + k] ELSE 0]

Range(s) == {s[k] : k \in DOMAIN s}

IsPrefix(s, t) == Len(s) <= Len(t) /\ SubSeq(t, 1, Len(s)) = s

\* All sequences over S of length at most n.
SeqsUpTo(S, n) == UNION {[1..k -> S] : k \in 0..n}

\* flagByte & mask != 0, for a mask with a single bit set.
BitSet(b, mask) == (b \div mask) % 2 = 1

bit0 == 128
bit1 == 64
bit2 == 32
bit3 == 16
bit4 == 8
bit5 == 4
bit6 == 2
bit7 == 1

---------------------------------------------------------------------------
(* errlist.List: Add keeps the non-nil errors, Err is nil when none was    *)
(* added.  A list is kept here as its diagnostics in the order they were   *)
(* added, whatever their nesting; the nil error is the empty list.         *)

NoErr == <<>>

ErrAdd(list, e) == list \o e

ErrOf(msg) == <<msg>>

---------------------------------------------------------------------------
(* TLVBytesToTLVs: the TLV splitter. *)

rawTLV(t, l, v) == [Type |-> t, Length |-> l, Value |-> v]

\* What one iteration of a loop leaves: whether the loop was left in it, the
\* position the next iteration reads from, and the result so far (the result
\* of the loop when it was left).
Left(x, res) == [left |-> TRUE, x |-> x, res |-> res]

Again(x, res) == [left |-> FALSE, x |-> x, res |-> res]

\* The element of a set of one element.  Once({F(v) : v \in {x}}) is F(x)
\* with x computed once, whatever the number of times F reads it.
Once(S) == CHOOSE y \in S : TRUE

\* One iteration of the for loop of TLVBytesToTLVs at position pos < len with
\* the records tlvs already carved.  A failure returns nil records.
TLVStep(b, pos, tlvs) ==
    IF pos = Len(b) - 1
    THEN Left(pos, [tlvs |-> <<>>, err |-> ErrOf("invalid length of TLVs, got a TLV with type and no length")])
    ELSE LET tlvLen == At(b, pos + 1) IN
         IF pos + 2 + tlvLen > Len(b)
         THEN Left(pos, [tlvs |-> <<>>, err |-> ErrOf("invalid length of TLVs, overflowed buffer")])
         ELSE LET tlvContents == [k \in 1..tlvLen |-> At(b, pos + 2 + k - 1)]
                  t == rawTLV(At(b, pos), tlvLen, tlvContents)
              IN  Again(pos + 2 + tlvLen, [tlvs |-> Append(tlvs, t), err |-> NoErr])

\* The for loop of TLVBytesToTLVs from position pos.
RECURSIVE TLVLoop(_, _, _)
TLVLoop(b, pos, tlvs) ==
    IF ~(pos < Len(b)) THEN [tlvs |-> tlvs, err |-> NoErr]
    ELSE LET Go(st) == IF st.left THEN st.res ELSE TLVLoop(b, st.x, st.res.tlvs)
         IN  Go(TLVStep(b, pos, tlvs))

\* TLVBytesToTLVs copying the value from one byte too early: the length byte
\* is read again as the first value byte and the last value byte is skipped.
TLVBytesToTLVsEarlyValue(b) ==
    LET RECURSIVE loop(_, _)
        loop(pos, tlvs) ==
            IF ~(pos < Len(b)) THEN [tlvs |-> tlvs, err |-> NoErr]
            ELSE IF pos = Len(b) - 1 THEN [tlvs |-> <<>>, err |-> ErrOf("invalid length of TLVs, got a TLV with type and no length")]
            ELSE LET tlvLen == At(b, pos + 1) IN
                 IF pos + 2 + tlvLen > Len(b)
                 THEN [tlvs |-> <<>>, err |-> ErrOf("invalid length of TLVs, overflowed buffer")]
                 ELSE LET tlvContents == [k \in 1..tlvLen |-> At(b, pos + 1 + k - 1)]
                          t == rawTLV(At(b, pos), tlvLen, tlvContents)
                      IN  loop(pos + 2 + tlvLen, Append(tlvs, t))
    IN  loop(0, <<>>)

\* TLVBytesToTLVs taking a type byte that ends the input for a record with
\* no value instead of failing.
TLVBytesToTLVsLoneType(b) ==
    LET RECURSIVE loop(_, _)
        loop(pos, tlvs) ==
            IF ~(pos < Len(b)) THEN [tlvs |-> tlvs, err |-> NoErr]
            ELSE IF pos = Len(b) - 1
            THEN [tlvs |-> Append(tlvs, rawTLV(At(b, pos), 0, <<>>)), err |-> NoErr]
            ELSE LET tlvLen == At(b, pos + 1) IN
                 IF pos + 2 + tlvLen > Len(b)
                 THEN [tlvs |-> <<>>, err |-> ErrOf("invalid length of TLVs, overflowed buffer")]
                 ELSE LET tlvContents == [k \in 1..tlvLen |-> At(b, pos + 2 + k - 1)]
                          t == rawTLV(At(b, pos), tlvLen, tlvContents)
                      IN  loop(pos + 2 + tlvLen, Append(tlvs, t))
    IN  loop(0, <<>>)

TLVBytesToTLVs(b) == TLVLoop(b, 0, <<>>)

---------------------------------------------------------------------------
(* Byte utilities: big-endian integers, hex and address text. *)

HexDigits == <<"0", "1", "2", "3", "4", "5", "6", "7",
               "8", "9", "a", "b", "c", "d", "e", "f">>

DecDigits == <<"0", "1", "2", "3", "4", "5", "6", "7", "8", "9">>

\* The characters of a text, joined into a string.
RECURSIVE StrOf(_)
StrOf(cs) == IF cs = <<>> THEN "" ELSE Head(cs) \o StrOf(Tail(cs))

\* hex.EncodeToString: two lowercase hex characters per byte, high nibble first.
EncodeToString(in) ==
    [k \in 1..(2 * Len(in)) |->
        IF k % 2 = 1 THEN HexDigits[(in[(k + 1) \div 2] \div 16) + 1]
                     ELSE HexDigits[(in[k \div 2] % 16) + 1]]

\* The loop of canonicalHexString over the hex characters s, from index i,
\* with the text out written so far.
RECURSIVE canonicalHexLoop(_, _, _)
canonicalHexLoop(s, i, out) ==
    IF ~(i <= Len(s)) THEN out
    ELSE LET e == IF i + 4 > Len(s) THEN Len(s) ELSE i + 4
             w == out \o StrOf(Slice(s, i, e))
         IN  canonicalHexLoop(s, i + 4, IF e # Len(s) THEN w \o "." ELSE w)

\* canonicalHexString with a dot after every byte instead of every two.
canonicalHexStringByteGroups(in) ==
    LET s == EncodeToString(in)
        RECURSIVE loop(_, _)
        loop(i, out) ==
            IF ~(i <= Len(s)) THEN out
            ELSE LET e == IF i + 2 > Len(s) THEN Len(s) ELSE i + 2
                     w == out \o StrOf(Slice(s, i, e))
                 IN  loop(i + 2, IF e # Len(s) THEN w \o "." ELSE w)
    IN  loop(0, "")

canonicalHexString(in) == canonicalHexLoop(EncodeToString(in), 0, "")

\* A uint32 is kept as its two 16-bit halves, high half first: TLC's
\* integers are 32-bit signed and cannot hold one.
U32(b1, b2, b3, b4) == <<b1 * 256 + b2, b3 * 256 + b4>>

\* binaryToUint32 reading the four bytes little-endian.
binaryToUint32LittleEndian(n) ==
    IF Len(n) # 4 THEN [val |-> U32(0, 0, 0, 0), err |-> ErrOf("input byte array was incorrect length")]
    ELSE [val |-> U32(n[4], n[3], n[2], n[1]), err |-> NoErr]

\* binaryToUint32: four bytes, big-endian.
binaryToUint32(n) ==
    IF Len(n) # 4 THEN [val |-> U32(0, 0, 0, 0), err |-> ErrOf("input byte array was incorrect length")]
    ELSE [val |-> U32(n[1], n[2], n[3], n[4]), err |-> NoErr]

\* binaryToFloat32: the bits of a uint32 are always a float32, so only the
\* length can fail; the value itself is never used by the decoder.
binaryToFloat32(n) == [err |-> binaryToUint32(n).err]

\* The decimal text of a natural number.
RECURSIVE Dec(_)
Dec(n) == IF n < 10 THEN DecDigits[n + 1] ELSE Dec(n \div 10) \o DecDigits[(n % 10) + 1]

\* The hex text of a natural number without leading zeroes (net's appendHex).
RECURSIVE Hex(_)
Hex(n) == IF n < 16 THEN HexDigits[n + 1] ELSE Hex(n \div 16) \o HexDigits[(n % 16) + 1]

Dotted(ip) == Dec(ip[1]) \o "." \o Dec(ip[2]) \o "." \o Dec(ip[3]) \o "." \o Dec(ip[4])

\* ip4BytesToString: net.IP(ip).String() of four bytes is dotted decimal.
ip4BytesToString(ip) ==
    IF Len(ip) # 4 THEN [str |-> "", err |-> ErrOf("ip4 addresses must be 32-bits")]
    ELSE [str |-> Dotted(ip), err |-> NoErr]

\* The 16-bit group g (0..7) of a 16-byte address.
Group(ip, g) == ip[2 * g + 1] * 256 + ip[2 * g + 2]

\* The number of consecutive zero groups of ip starting at group g.
RECURSIVE ZeroRun(_, _)
ZeroRun(ip, g) == IF g > 7 \/ Group(ip, g) # 0 THEN 0 ELSE 1 + ZeroRun(ip, g + 1)

\* net.IP.String() of sixteen bytes: an IPv4-mapped address (To4) prints dotted;
\* otherwise the first longest run of two or more zero groups prints as "::".
IP6Text(ip) ==
    IF (\A k \in 1..10 : ip[k] = 0) /\ ip[11] = 255 /\ ip[12] = 255
    THEN Dotted(SubSeq(ip, 13, 16))
    ELSE LET best == CHOOSE n \in 0..8 :
                        /\ \E g \in 0..7 : ZeroRun(ip, g) = n
                        /\ \A g \in 0..7 : ZeroRun(ip, g) <= n
             e0 == IF best <= 1 THEN -1
                   ELSE CHOOSE g \in 0..7 :
                            /\ ZeroRun(ip, g) = best
                            /\ \A h \in 0..(g - 1) : ZeroRun(ip, h) < best
             e1 == IF best <= 1 THEN -1 ELSE e0 + best
             RECURSIVE print(_, _)
             print(g, out) ==
                 IF g > 7 THEN out
                 ELSE IF g = e0
                      THEN IF e1 > 7 THEN out \o "::"
                           ELSE print(e1 + 1, out \o "::" \o Hex(Group(ip, e1)))
                      ELSE print(g + 1, (IF g > 0 THEN out \o ":" ELSE out) \o Hex(Group(ip, g)))
         IN  print(0, "")

ip6BytesToString(ip) ==
    IF Len(ip) # 16 THEN [str |-> "", err |-> ErrOf("ip6 addresses must be 128-bits")]
    ELSE [str |-> IP6Text(ip), err |-> NoErr]

---------------------------------------------------------------------------
(* The structured model: the LSP, its TLV map and the containers.          *)
(* A Go map is a function; the empty map is the function with no domain.   *)

EmptyMap == <<>>

Put(m, k, v) == [x \in (DOMAIN m) \cup {k} |-> IF x = k THEN v ELSE m[x]]

\* The returned LSP when there is none.
NilLSP == [Nil |-> TRUE]

IsNil(L) == "Nil" \in DOMAIN L

\* newISISLSP: an LSP with an empty TLV map.
newISISLSP == [Tlv |-> EmptyMap]

\* The keys of LSP.Tlv: the ISIS_TLV_TYPE enumerants.
AREA_ADDRESSES == "AREA_ADDRESSES"
EXTENDED_IS_REACHABILITY == "EXTENDED_IS_REACHABILITY"
NLPID == "NLPID"
IPV4_INTERFACE_ADDRESSES == "IPV4_INTERFACE_ADDRESSES"
IPV4_TE_ROUTER_ID == "IPV4_TE_ROUTER_ID"
EXTENDED_IPV4_REACHABILITY == "EXTENDED_IPV4_REACHABILITY"
DYNAMIC_NAME == "DYNAMIC_NAME"
IPV6_INTERFACE_ADDRESSES == "IPV6_INTERFACE_ADDRESSES"
IPV6_REACHABILITY == "IPV6_REACHABILITY"
ROUTER_CAPABILITY == "ROUTER_CAPABILITY"

\* ygot.InitContainer's new, empty container of each name.
EmptyContainer(containerName) ==
    CASE containerName = "Hostname" -> [Hostname |-> <<>>]
      [] containerName = "AreaAddress" -> [Address |-> <<>>]
      [] containerName = "Nlpid" -> [Nlpid |-> <<>>]
      [] containerName = "Ipv4InterfaceAddresses" -> [Address |-> <<>>]
      [] containerName = "Ipv6InterfaceAddresses" -> [Address |-> <<>>]
      [] containerName = "Ipv4TeRouterId" -> [RouterId |-> <<>>]
      [] containerName = "ExtendedIsReachability" -> [Neighbor |-> EmptyMap]
      [] containerName = "ExtendedIpv4Reachability" -> [Prefix |-> EmptyMap]
      [] containerName = "Ipv6Reachability" -> [Prefix |-> EmptyMap]
      [] containerName = "AdminGroup" -> [AdminGroup |-> <<>>]
      [] containerName = "Ipv4InterfaceAddress" -> [Address |-> <<>>]
      [] containerName = "Ipv4NeighborAddress" -> [Address |-> <<>>]
      [] containerName = "MaxLinkBandwidth" -> [Bandwidth |-> <<>>]
      [] containerName = "MaxReservableLinkBandwidth" -> [Bandwidth |-> <<>>]
      [] containerName = "ResidualBandwidth" -> [Bandwidth |-> <<>>]

InitContainer(tlv, containerName) ==
    (containerName :> EmptyContainer(containerName)) @@ tlv

\* getTLV: the TLV of type t, made by NewTlv when the LSP has none.  NewTlv
\* fails only on a key the map already holds, which getTLV has ruled out.
getTLV(L, t) ==
    IF t \in DOMAIN L.Tlv
    THEN [lsp |-> L, created |-> FALSE]
    ELSE [lsp |-> [L EXCEPT !.Tlv = Put(@, t, [Type |-> t])], created |-> TRUE]

\* getTLVAndInit putting a new TLV with a new container in the map whether or
\* not the LSP already holds one of the type.
getTLVAndInitFresh(L, t, containerName) ==
    [L EXCEPT !.Tlv = Put(@, t, InitContainer([Type |-> t], containerName))]

\* getTLVAndInit: the LSP holding a TLV of type t, its container initialised
\* when the TLV is new.  The decoders reach the TLV through the map.
getTLVAndInit(L, t, containerName) ==
    LET Initialised(g) == IF g.created
                          THEN [g.lsp EXCEPT !.Tlv[t] = InitContainer(@, containerName)]
                          ELSE g.lsp
    IN  Initialised(getTLV(L, t))

\* What a decoder leaves: the LSP as it mutated it, the error it returned
\* and whether it panicked instead of returning.
Returned(L, e) == [lsp |-> L, err |-> e, panic |-> FALSE]

Panicked(L) == [lsp |-> L, err |-> NoErr, panic |-> TRUE]

\* What a decoder leaves when its loop ended in the result res with the LSP L:
\* a panic, or a return with the loop's error.
Ended(L, res) == IF res.panic THEN Panicked(L) ELSE Returned(L, res.err)

---------------------------------------------------------------------------
(* The decoders of the list-valued TLVs. *)

\* processDynamicNameTLV (type 137): string(r.Value) keeps the bytes.
processDynamicNameTLV(L, r) ==
    LET L1 == getTLVAndInit(L, DYNAMIC_NAME, "Hostname") IN
    Returned([L1 EXCEPT !.Tlv[DYNAMIC_NAME].Hostname.Hostname = Append(@, r.Value)], NoErr)

\* A variant of areaAddressStep whose end position leaves out the length
\* byte.
areaAddressStepNoLengthByte(v, x, addrs) ==
    LET addrLen == At(v, x)
        endPos == x + addrLen
    IN  IF endPos > Len(v)
        THEN Left(x, [addrs |-> addrs, err |-> ErrOf("invalid length of address, overflows TLV length"), panic |-> FALSE])
        ELSE Again(endPos, [addrs |-> Append(addrs, Slice(v, x, endPos)), err |-> NoErr, panic |-> FALSE])

\* One iteration of the loop of processAreaAddressTLV over the value v at
\* position x < len, with the addresses addrs appended so far.  r.Value[x+1]
\* and r.Value[x+2:endPos] are the accesses that can leave the value.
areaAddressStep(v, x, addrs) ==
    LET addrLen == At(v, x)
        endPos == x + 1 + addrLen
    IN  IF endPos > Len(v)
        THEN Left(x, [addrs |-> addrs, err |-> ErrOf("invalid length of address, overflows TLV length"), panic |-> FALSE])
        ELSE IF ~InRange(v, x + 1) \/ ~SliceOK(v, x + 2, endPos)
        THEN Left(x, [addrs |-> addrs, err |-> NoErr, panic |-> TRUE])
        ELSE LET a == canonicalHexString(<<At(v, x + 1)>>) \o "."
                          \o canonicalHexString(Slice(v, x + 2, endPos))
             IN  Again(endPos, [addrs |-> Append(addrs, a), err |-> NoErr, panic |-> FALSE])

\* The loop of processAreaAddressTLV from position x.
RECURSIVE areaAddressLoop(_, _, _)
areaAddressLoop(v, x, addrs) ==
    IF ~(x < Len(v)) THEN [addrs |-> addrs, err |-> NoErr, panic |-> FALSE]
    ELSE LET Go(st) == IF st.left THEN st.res ELSE areaAddressLoop(v, st.x, st.res.addrs)
         IN  Go(areaAddressStep(v, x, addrs))

\* processAreaAddressTLV (type 1).
processAreaAddressTLV(L, r) ==
    LET Stored(L1, res) ==
            Ended([L1 EXCEPT !.Tlv[AREA_ADDRESSES].AreaAddress.Address = res.addrs], res)
        Decoded(L1) ==
            Stored(L1, areaAddressLoop(r.Value, 0, L1.Tlv[AREA_ADDRESSES].AreaAddress.Address))
    IN  Decoded(getTLVAndInit(L, AREA_ADDRESSES, "AreaAddress"))

\* The loop of processNLPIDTLV: 0xCC is IPV4, 0x8E is IPV6, any other byte
\* adds an error and is skipped.
RECURSIVE nlpidLoop(_, _, _)
nlpidLoop(v, ids, e) ==
    IF v = <<>> THEN [ids |-> ids, err |-> e]
    ELSE LET b == Head(v) IN
         IF b = 204 THEN nlpidLoop(Tail(v), Append(ids, "IPV4"), e)
         ELSE IF b = 142 THEN nlpidLoop(Tail(v), Append(ids, "IPV6"), e)
         ELSE nlpidLoop(Tail(v), ids, ErrAdd(e, ErrOf("unknown NLPID specified")))

\* processNLPIDTLV (type 129).
processNLPIDTLV(L, r) ==
    LET Stored(L1, res) == Returned([L1 EXCEPT !.Tlv[NLPID].Nlpid.Nlpid = res.ids], res.err)
        Decoded(L1) == Stored(L1, nlpidLoop(r.Value, L1.Tlv[NLPID].Nlpid.Nlpid, NoErr))
    IN  Decoded(getTLVAndInit(L, NLPID, "Nlpid"))

\* The loop of both interface address decoders: the value cut in addresses of
\* n bytes, each rendered by toString (which cannot fail on n bytes).
RECURSIVE addressLoop(_, _, _, _)
addressLoop(v, x, n, addrs) ==
    IF ~(x < Len(v)) THEN addrs
    ELSE LET a == IF n = 4 THEN ip4BytesToString(Slice(v, x, x + n))
                           ELSE ip6BytesToString(Slice(v, x, x + n))
         IN  addressLoop(v, x + n, n, Append(addrs, a.str))

\* processIPInterfaceAddressTLV (type 132).
processIPInterfaceAddressTLV(L, r) ==
    LET L1 == getTLVAndInit(L, IPV4_INTERFACE_ADDRESSES, "Ipv4InterfaceAddresses") IN
    IF Len(r.Value) % 4 # 0 THEN Returned(L1, ErrOf("invalid IPv4 interface address TLV, length was not a multiple of 4"))
    ELSE Returned([L1 EXCEPT !.Tlv[IPV4_INTERFACE_ADDRESSES].Ipv4InterfaceAddresses.Address =
                        addressLoop(r.Value, 0, 4, @)], NoErr)

\* processIPv6InterfaceAddressTLV (type 232).
processIPv6InterfaceAddressTLV(L, r) ==
    LET L1 == getTLVAndInit(L, IPV6_INTERFACE_ADDRESSES, "Ipv6InterfaceAddresses") IN
    IF Len(r.Value) % 16 # 0 THEN Returned(L1, ErrOf("invalid IPv6 interface address TLV, length was not a multiple of 16"))
    ELSE Returned([L1 EXCEPT !.Tlv[IPV6_INTERFACE_ADDRESSES].Ipv6InterfaceAddresses.Address =
                        addressLoop(r.Value, 0, 16, @)], NoErr)

\* processTERouterIDTLV (type 134): the length is checked before the TLV is
\* looked up, so a wrong length leaves the LSP as it was.
processTERouterIDTLV(L, r) ==
    IF Len(r.Value) < 4 \/ Len(r.Value) > 4 THEN Returned(L, ErrOf("invalid length Router ID TLV"))
    ELSE LET L1 == getTLVAndInit(L, IPV4_TE_ROUTER_ID, "Ipv4TeRouterId")
             ip4 == ip4BytesToString(Slice(r.Value, 0, 4))
         IN  Returned([L1 EXCEPT !.Tlv[IPV4_TE_ROUTER_ID].Ipv4TeRouterId.RouterId =
                            Append(@, ip4.str)], NoErr)

---------------------------------------------------------------------------
(* The Router Capability TLV (type 242) and its sub-TLVs. *)

ROUTER_CAPABILITY_SR_CAPABILITY == "ROUTER_CAPABILITY_SR_CAPABILITY"
ROUTER_CAPABILITY_SR_ALGORITHM == "ROUTER_CAPABILITY_SR_ALGORITHM"

\* A pointer field that is set is a field of the record; x.f = v sets it.
SetField(x, f, v) == (f :> v) @@ x

\* getCapabilitySubTLV: the capability with a sub-TLV of type t, made by
\* NewSubtlv when there is none.
getCapabilitySubTLV(c, t) ==
    IF t \in DOMAIN c.Subtlv THEN c
    ELSE [c EXCEPT !.Subtlv = Put(@, t, [Type |-> t])]

RECURSIVE srAlgorithmLoop(_, _, _)
srAlgorithmLoop(v, algs, e) ==
    IF v = <<>> THEN [algs |-> algs, err |-> e]
    ELSE LET b == Head(v) IN
         IF b = 0 THEN srAlgorithmLoop(Tail(v), Append(algs, "SPF"), e)
         ELSE IF b = 1 THEN srAlgorithmLoop(Tail(v), Append(algs, "STRICT_SPF"), e)
         ELSE srAlgorithmLoop(Tail(v), algs, ErrAdd(e, ErrOf("invalid Segment Routing algorithm returned in router capability sub-TLV")))

\* processSRAlgorithmCapabilitySubTLV (sub-TLV 19): the algorithms container
\* is assigned anew before the loop.
processSRAlgorithmCapabilitySubTLV(c, r) ==
    LET c1 == getCapabilitySubTLV(c, ROUTER_CAPABILITY_SR_ALGORITHM)
        res == srAlgorithmLoop(r.Value, <<>>, NoErr)
    IN  [cap |-> [c1 EXCEPT !.Subtlv[ROUTER_CAPABILITY_SR_ALGORITHM] =
                        SetField(@, "SegmentRoutingAlgorithms", [Algorithm |-> res.algs])],
         err |-> res.err, panic |-> FALSE]

\* One iteration of the descriptor loop of processSRCapabilitySubTLV at
\* position i < len.  A return inside the loop (fatal) drops the errors added
\* so far; the slice r.Value[i+5 : i+5+sidlLen] is taken before sidlLen is
\* checked.
srgbStep(v, i, descrNo, descrs, e) ==
    IF Len(v) < i + 8
    THEN Left(i, [descrs |-> descrs, err |-> ErrOf("invalid length of SR descriptor entry, overflows TLV length"), fatal |-> TRUE, panic |-> FALSE])
    ELSE LET sidlLen == At(v, i + 4) IN
         IF sidlLen = 4 /\ Len(v) < i + 9
         THEN Left(i, [descrs |-> descrs, err |-> ErrOf("invalid length of SR descriptor entry with an index, overflows TLV length"), fatal |-> TRUE, panic |-> FALSE])
         ELSE LET endPos == 5 + sidlLen
                  srgbRange == binaryToUint32(<<0, At(v, i), At(v, i + 1), At(v, i + 2)>>)
                  sidlType == At(v, i + 3)
                  e1 == IF sidlType # 1 THEN ErrAdd(e, ErrOf("invalid SID/Label sub-TLV type in SRGB descriptor")) ELSE e
              IN  IF ~SliceOK(v, i + 5, i + 5 + sidlLen)
                  THEN Left(i, [descrs |-> descrs, err |-> NoErr, fatal |-> FALSE, panic |-> TRUE])
                  ELSE LET sidlVal == SliceCap(v, i + 5, i + 5 + sidlLen) IN
                       IF sidlLen # 3 /\ sidlLen # 4
                       THEN Left(i, [descrs |-> descrs, err |-> ErrOf("invalid length SRGB start"), fatal |-> TRUE, panic |-> FALSE])
                       ELSE LET lbl == IF sidlLen = 3
                                       THEN binaryToUint32(<<0>> \o sidlVal)
                                       ELSE binaryToUint32(sidlVal)
                                d == [Range |-> srgbRange.val, Label |-> lbl.val]
                            IN  Again(i + endPos, [descrs |-> Put(descrs, descrNo, d), err |-> e1,
                                                   fatal |-> FALSE, panic |-> FALSE])

\* The descriptor loop of processSRCapabilitySubTLV from position i; descrNo
\* counts the descriptors made.
RECURSIVE srgbLoop(_, _, _, _, _)
srgbLoop(v, i, descrNo, descrs, e) ==
    IF ~(i < Len(v))
    THEN [descrs |-> descrs, err |-> e, fatal |-> FALSE, panic |-> FALSE]
    ELSE LET Go(st) == IF st.left THEN st.res
                       ELSE srgbLoop(v, st.x, descrNo + 1, st.res.descrs, st.res.err)
         IN  Go(srgbStep(v, i, descrNo, descrs, e))

\* processSRCapabilitySubTLV (sub-TLV 2): r.Value[0] is read unguarded, and
\* the capability container is stored only when the loop runs to its end.
processSRCapabilitySubTLV(c, r) ==
    LET c1 == getCapabilitySubTLV(c, ROUTER_CAPABILITY_SR_CAPABILITY) IN
    IF ~InRange(r.Value, 0) THEN [cap |-> c1, err |-> NoErr, panic |-> TRUE]
    ELSE LET flags == (IF BitSet(At(r.Value, 0), bit0) THEN <<"IPV4_MPLS">> ELSE <<>>)
                      \o (IF BitSet(At(r.Value, 0), bit1) THEN <<"IPV6_MPLS">> ELSE <<>>)
             res == srgbLoop(r.Value, 1, 0, EmptyMap, NoErr)
             srcap == [Flags |-> flags, SrgbDescriptor |-> res.descrs]
         IN  IF res.panic THEN [cap |-> c1, err |-> NoErr, panic |-> TRUE]
             ELSE IF res.fatal THEN [cap |-> c1, err |-> res.err, panic |-> FALSE]
             ELSE [cap |-> [c1 EXCEPT !.Subtlv[ROUTER_CAPABILITY_SR_CAPABILITY] =
                                 SetField(@, "SegmentRoutingCapability", srcap)],
                   err |-> res.err, panic |-> FALSE]

\* The sub-TLV loop of processCapabilityTLV.
RECURSIVE capabilitySubTLVLoop(_, _, _)
capabilitySubTLVLoop(c, subTLVs, e) ==
    IF subTLVs = <<>> THEN [cap |-> c, err |-> e, panic |-> FALSE]
    ELSE LET s == Head(subTLVs) IN
         IF s.Type = 2 \/ s.Type = 19
         THEN LET res == IF s.Type = 2 THEN processSRCapabilitySubTLV(c, s)
                                       ELSE processSRAlgorithmCapabilitySubTLV(c, s)
              IN  IF res.panic THEN res
                  ELSE capabilitySubTLVLoop(res.cap, Tail(subTLVs), ErrAdd(e, res.err))
         ELSE capabilitySubTLVLoop(c, Tail(subTLVs), ErrAdd(e, ErrOf("unimplemented router capability sub-TLV")))

\* The capabilities of a TLV; the list is nil until NewCapability makes it.
CapabilityOf(tlv) == IF "Capability" \in DOMAIN tlv THEN tlv.Capability ELSE EmptyMap

\* processCapabilityTLV (type 242): the instance is added, keyed by the number
\* of instances before it, ahead of every check of the value.
processCapabilityTLV(L, r) ==
    LET L1 == getTLV(L, ROUTER_CAPABILITY).lsp
        caps == CapabilityOf(L1.Tlv[ROUTER_CAPABILITY])
        n == Cardinality(DOMAIN caps)
        rcap0 == [InstanceNumber |-> n, Flags |-> <<>>, Subtlv |-> EmptyMap]
        Store(c) == [L1 EXCEPT !.Tlv[ROUTER_CAPABILITY] = SetField(@, "Capability", Put(caps, n, c))]
    IN  IF Len(r.Value) < 5 THEN Returned(Store(rcap0), ErrOf("invalid length of Router Capability TLV"))
        ELSE LET rid == ip4BytesToString(Slice(r.Value, 0, 4))
                 flags == (IF BitSet(At(r.Value, 4), bit6) THEN <<"DOWN">> ELSE <<>>)
                          \o (IF BitSet(At(r.Value, 4), bit7) THEN <<"FLOOD">> ELSE <<>>)
                 rcap1 == [SetField(rcap0, "RouterId", rid.str) EXCEPT !.Flags = flags]
                 sub == TLVBytesToTLVs(Slice(r.Value, 5, Len(r.Value)))
             IN  IF sub.err # NoErr THEN Returned(Store(rcap1), ErrOf("invalid subTLVs in Capability TLV"))
                 ELSE LET Stored(res) == Ended(Store(res.cap), res)
                      IN  Stored(capabilitySubTLVLoop(rcap1, sub.tlvs, NoErr))

---------------------------------------------------------------------------
(* The reachability TLVs (types 135 and 236) and the Prefix-SID sub-TLV. *)

IP_REACHABILITY_PREFIX_SID == "IP_REACHABILITY_PREFIX_SID"

\* The generated NewSubtlv of a keyed list: a new entry under key t, refused
\* when the key is already there.
NewSubtlv(m, t) ==
    IF t \in DOMAIN m THEN [map |-> m, err |-> ErrOf("duplicate key for list")]
    ELSE [map |-> Put(m, t, [Type |-> t]), err |-> NoErr]

\* parsePrefixSIDSubTLV: flags, algorithm and SID of a Prefix-SID sub-TLV.
\* Without VALUE the SID is r.Value[2:6], sliced whatever the length is.
parsePrefixSIDSubTLV(r) ==
    LET v == r.Value
        Refused(e) == [p |-> [Nil |-> TRUE], err |-> e, panic |-> FALSE]
    IN  IF Len(v) < 4 THEN Refused(ErrOf("invalid Prefix-SID subTLV, invalid length"))
        ELSE LET isLabel == BitSet(At(v, 0), bit4)
                 flags == (IF BitSet(At(v, 0), bit0) THEN <<"READVERTISEMENT">> ELSE <<>>)
                          \o (IF BitSet(At(v, 0), bit1) THEN <<"NODE">> ELSE <<>>)
                          \o (IF BitSet(At(v, 0), bit2) THEN <<"NO_PHP">> ELSE <<>>)
                          \o (IF BitSet(At(v, 0), bit3) THEN <<"EXPLICIT_NULL">> ELSE <<>>)
                          \o (IF isLabel THEN <<"VALUE">> ELSE <<>>)
                          \o (IF BitSet(At(v, 0), bit5) THEN <<"LOCAL">> ELSE <<>>)
             IN  IF isLabel /\ Len(v) < 5 THEN Refused(ErrOf("invalid Prefix-SID subTLV, invalid length for index"))
                 ELSE IF ~isLabel /\ ~SliceOK(v, 2, 6)
                 THEN [p |-> [Nil |-> TRUE], err |-> NoErr, panic |-> TRUE]
                 ELSE LET sidv == IF ~isLabel THEN binaryToUint32(SliceCap(v, 2, 6))
                                  ELSE binaryToUint32(<<0, At(v, 2), At(v, 3), At(v, 4)>>)
                      IN  [p |-> [Algorithm |-> At(v, 1), Value |-> sidv.val, Flags |-> flags],
                           err |-> sidv.err, panic |-> FALSE]

\* addIPv6ReachabilityPrefixSID: NewSubtlv on the prefix, then NewPrefixSid
\* in the sub-TLV just made.
addIPv6ReachabilityPrefixSID(c, p) ==
    LET n == NewSubtlv(c.Subtlv, IP_REACHABILITY_PREFIX_SID) IN
    IF n.err # NoErr THEN [pfx |-> c, err |-> n.err]
    ELSE LET pfxsid == [Value |-> p.Value, Algorithm |-> p.Algorithm, Flags |-> p.Flags]
             subtlv == SetField(n.map[IP_REACHABILITY_PREFIX_SID], "PrefixSid", p.Value :> pfxsid)
         IN  [pfx |-> [c EXCEPT !.Subtlv = Put(n.map, IP_REACHABILITY_PREFIX_SID, subtlv)],
              err |-> NoErr]

\* addExtendedIPReachabilityPrefixSID: the same steps on an IPv4 prefix.
addExtendedIPReachabilityPrefixSID(c, p) ==
    LET n == NewSubtlv(c.Subtlv, IP_REACHABILITY_PREFIX_SID) IN
    IF n.err # NoErr THEN [pfx |-> c, err |-> n.err]
    ELSE LET pfxsid == [Value |-> p.Value, Algorithm |-> p.Algorithm, Flags |-> p.Flags]
             subtlv == SetField(n.map[IP_REACHABILITY_PREFIX_SID], "PrefixSid", p.Value :> pfxsid)
         IN  [pfx |-> [c EXCEPT !.Subtlv = Put(n.map, IP_REACHABILITY_PREFIX_SID, subtlv)],
              err |-> NoErr]

\* The sub-TLV loop of the reachability decoders over one prefix c; v6 tells
\* which of the two decoders runs it.
RECURSIVE prefixSubTLVLoop(_, _, _, _)
prefixSubTLVLoop(c, subTLVs, e, v6) ==
    IF subTLVs = <<>> THEN [pfx |-> c, err |-> e, panic |-> FALSE]
    ELSE LET st == Head(subTLVs) IN
         IF st.Type = 3
         THEN LET Added(a) == prefixSubTLVLoop(a.pfx, Tail(subTLVs), ErrAdd(e, a.err), v6)
                  Parsed(pfxseg) ==
                      IF pfxseg.panic THEN [pfx |-> c, err |-> e, panic |-> TRUE]
                      ELSE IF pfxseg.err # NoErr
                      THEN prefixSubTLVLoop(c, Tail(subTLVs), ErrAdd(e, pfxseg.err), v6)
                      ELSE Once({Added(a) : a \in {IF v6 THEN addIPv6ReachabilityPrefixSID(c, pfxseg.p)
                                                         ELSE addExtendedIPReachabilityPrefixSID(c, pfxseg.p)}})
              IN  Once({Parsed(pfxseg) : pfxseg \in {parsePrefixSIDSubTLV(st)}})
         ELSE prefixSubTLVLoop(c, Tail(subTLVs),
                  ErrAdd(e, ErrOf(IF v6 THEN "unimplemented sub-TLV parsing in IPv6 Reachability TLV" ELSE "unimplemented sub-TLV parsing in Extended IP Reachability TLV")), v6)

\* The k bytes copied to the end of the n bytes instead of their start.
PadBytesRightAligned(v, lo, k, n) == [j \in 1..n |-> IF j > n - k THEN At(v, lo + j - (n - k) - 1) ELSE 0]

\* make([]byte, n) filled with the first k bytes of v from position lo.
PadBytes(v, lo, k, n) == [j \in 1..n |-> IF j <= k THEN At(v, lo + j - 1) ELSE 0]

\* What a reachability loop leaves: the prefix map, the error returned and
\* whether it panicked.
ReachDone(prefixes, e) == [prefixes |-> prefixes, err |-> e, panic |-> FALSE]

ReachPanic(prefixes) == [prefixes |-> prefixes, err |-> NoErr, panic |-> TRUE]

\* One iteration of the entry loop of processIPv6ReachabilityTLV at position
\* x < len; e holds the errors added so far, which every return inside the
\* loop drops.  A key already in the map returns the nil err of
\* ip6BytesToString.  The prefix bytes go to a 16-byte buffer, so ipBytes[j]
\* leaves it when ipL > 16.
ipv6ReachStep(v, x, prefixes, e) ==
    IF Len(v) < x + 6 THEN Left(x, ReachDone(prefixes, ErrOf("invalid IPv6 Reachability TLV, insufficient data")))
    ELSE LET metric == binaryToUint32(Slice(v, x, x + 4))
             upDown == BitSet(At(v, x + 4), bit0)
             extOrigin == BitSet(At(v, x + 4), bit1)
             subTLVPresent == BitSet(At(v, x + 4), bit2)
             pfxlen == At(v, x + 5)
             ipL == (pfxlen + 7) \div 8
         IN  IF Len(v) < x + 6 + ipL THEN Left(x, ReachDone(prefixes, ErrOf("Invalid prefix length, overflows length of TLV")))
             ELSE IF ipL > 16 THEN Left(x, ReachPanic(prefixes))
             ELSE LET addr == ip6BytesToString(PadBytes(v, x + 6, ipL, 16))
                      pfx == addr.str \o "/" \o Dec(pfxlen)
                      s == x + 6 + ipL
                      pfxTLV == [Prefix |-> pfx, UpDown |-> upDown, SBit |-> subTLVPresent,
                                 XBit |-> extOrigin, Metric |-> metric.val, Subtlv |-> EmptyMap]
                  IN  IF pfx \in DOMAIN prefixes THEN Left(s, ReachDone(prefixes, NoErr))
                      ELSE IF ~subTLVPresent
                      THEN Again(s, ReachDone(Put(prefixes, pfx, pfxTLV), e))
                      ELSE IF Len(v) < s + 1 THEN Left(s, ReachDone(prefixes, ErrOf("invalid length IPv6 Reachability TLV, subTLVs present but no length byte present")))
                      ELSE LET subTLVLen == At(v, s) IN
                           IF Len(v) < s + 1 + subTLVLen
                           THEN Left(s, ReachDone(prefixes, ErrOf("invalid length IPv6 Reachability subTLVs")))
                           ELSE LET sub == TLVBytesToTLVs(Slice(v, s + 1, s + 1 + subTLVLen)) IN
                                IF sub.err # NoErr THEN Left(s, ReachDone(prefixes, ErrOf("invalid subTLVs in IPv6 Reachability TLV")))
                                ELSE LET res == prefixSubTLVLoop(pfxTLV, sub.tlvs, e, TRUE) IN
                                     IF res.panic THEN Left(s, ReachPanic(prefixes))
                                     ELSE Again(s + 1 + subTLVLen,
                                                ReachDone(Put(prefixes, pfx, res.pfx), res.err))

\* The entry loop of processIPv6ReachabilityTLV from position x, and the
\* check of the position it ends at.
RECURSIVE ipv6ReachLoop(_, _, _, _)
ipv6ReachLoop(v, x, prefixes, e) ==
    IF ~(x < Len(v))
    THEN ReachDone(prefixes, IF x # Len(v) THEN ErrOf("invalid IPv6 Reachability TLV, does not have correct length") ELSE e)
    ELSE LET Go(st) == IF st.left THEN st.res
                       ELSE ipv6ReachLoop(v, st.x, st.res.prefixes, st.res.err)
         IN  Go(ipv6ReachStep(v, x, prefixes, e))

\* processIPv6ReachabilityTLV (type 236).
processIPv6ReachabilityTLV(L, r) ==
    LET Stored(L1, res) ==
            Ended([L1 EXCEPT !.Tlv[IPV6_REACHABILITY].Ipv6Reachability.Prefix = res.prefixes], res)
        Decoded(L1) ==
            Stored(L1, ipv6ReachLoop(r.Value, 0, L1.Tlv[IPV6_REACHABILITY].Ipv6Reachability.Prefix, NoErr))
    IN  Decoded(getTLVAndInit(L, IPV6_REACHABILITY, "Ipv6Reachability"))

\* One iteration of the entry loop of processExtendedIPReachTLV at position
\* x < len.  The prefix length is the control byte with its two high bits
\* cleared.
extendedIPReachStep(v, x, prefixes, e) ==
    IF Len(v) < x + 5 THEN Left(x, ReachDone(prefixes, ErrOf("invalid Extended IP Reachability TLV, insufficient data")))
    ELSE LET metric == binaryToUint32(Slice(v, x, x + 4))
             upDown == BitSet(At(v, x + 4), bit0)
             subTLVPresent == BitSet(At(v, x + 4), bit1)
             pfxLen == At(v, x + 4) % 64
             ipB == (pfxLen + 7) \div 8
         IN  IF pfxLen > 32 THEN Left(x, ReachDone(prefixes, ErrOf("IPv4 prefix length cannot be greater than 32")))
             ELSE IF Len(v) < x + 5 + ipB THEN Left(x, ReachDone(prefixes, ErrOf("insufficient bytes for IPv4 prefix within TLV")))
             ELSE LET pfx == ip4BytesToString(PadBytes(v, x + 5, ipB, 4))
                      v4Pfx == pfx.str \o "/" \o Dec(pfxLen)
                      s == x + 5 + ipB
                      pfxTLV == [Prefix |-> v4Pfx, Metric |-> metric.val, SBit |-> subTLVPresent,
                                 UpDown |-> upDown, Subtlv |-> EmptyMap]
                  IN  IF pfx.err # NoErr THEN Again(x, ReachDone(prefixes, ErrAdd(e, pfx.err)))
                      ELSE IF v4Pfx \in DOMAIN prefixes THEN Left(s, ReachDone(prefixes, NoErr))
                      ELSE IF ~subTLVPresent
                      THEN Again(s, ReachDone(Put(prefixes, v4Pfx, pfxTLV), e))
                      ELSE IF Len(v) < s + 1 THEN Left(s, ReachDone(prefixes, ErrOf("invalid length Extended IP Reachability TLV, subTLVs present but no length byte exists")))
                      ELSE LET subTLVLen == At(v, s) IN
                           IF Len(v) < s + 1 + subTLVLen
                           THEN Left(s, ReachDone(prefixes, ErrOf("invalid length Extended IP Reachability TLV, subTLV length")))
                           ELSE LET Stored(res) ==
                                        IF res.panic THEN Left(s, ReachPanic(prefixes))
                                        ELSE Again(s + 1 + subTLVLen,
                                                   ReachDone(Put(prefixes, v4Pfx, res.pfx), res.err))
                                    Split(sub) ==
                                        IF sub.err # NoErr THEN Left(s, ReachDone(prefixes, ErrOf("invalid sub-TLVs in ExtendedIPReachability TLV")))
                                        ELSE Once({Stored(res) : res \in {prefixSubTLVLoop(pfxTLV, sub.tlvs, e, FALSE)}})
                                IN  Once({Split(sub) : sub \in {TLVBytesToTLVs(Slice(v, s + 1, s + 1 + subTLVLen))}})

\* The entry loop of processExtendedIPReachTLV from position x.
RECURSIVE extendedIPReachLoop(_, _, _, _)
extendedIPReachLoop(v, x, prefixes, e) ==
    IF ~(x < Len(v)) THEN ReachDone(prefixes, e)
    ELSE LET Go(st) == IF st.left THEN st.res
                       ELSE extendedIPReachLoop(v, st.x, st.res.prefixes, st.res.err)
         IN  Go(extendedIPReachStep(v, x, prefixes, e))

\* processExtendedIPReachTLV (type 135).
processExtendedIPReachTLV(L, r) ==
    LET Stored(L1, res) ==
            Ended([L1 EXCEPT !.Tlv[EXTENDED_IPV4_REACHABILITY].ExtendedIpv4Reachability.Prefix =
                        res.prefixes], res)
        Decoded(L1) ==
            Stored(L1, extendedIPReachLoop(r.Value, 0,
                           L1.Tlv[EXTENDED_IPV4_REACHABILITY].ExtendedIpv4Reachability.Prefix, NoErr))
    IN  Decoded(getTLVAndInit(L, EXTENDED_IPV4_REACHABILITY, "ExtendedIpv4Reachability"))

---------------------------------------------------------------------------
(* The Extended IS Reachability TLV (type 22) and its sub-TLVs. *)

IS_REACHABILITY_ADMIN_GROUP == "IS_REACHABILITY_ADMIN_GROUP"
IS_REACHABILITY_LINK_ID == "IS_REACHABILITY_LINK_ID"
IS_REACHABILITY_IPV4_INTERFACE_ADDRESS == "IS_REACHABILITY_IPV4_INTERFACE_ADDRESS"
IS_REACHABILITY_IPV4_NEIGHBOR_ADDRESS == "IS_REACHABILITY_IPV4_NEIGHBOR_ADDRESS"
IS_REACHABILITY_MAX_LINK_BANDWIDTH == "IS_REACHABILITY_MAX_LINK_BANDWIDTH"
IS_REACHABILITY_MAX_RESERVABLE_BANDWIDTH == "IS_REACHABILITY_MAX_RESERVABLE_BANDWIDTH"
IS_REACHABILITY_UNRESERVED_BANDWIDTH == "IS_REACHABILITY_UNRESERVED_BANDWIDTH"
IS_REACHABILITY_ADJ_SID == "IS_REACHABILITY_ADJ_SID"
IS_REACHABILITY_ADJ_LAN_SID == "IS_REACHABILITY_ADJ_LAN_SID"
IS_REACHABILITY_RESIDUAL_BANDWIDTH == "IS_REACHABILITY_RESIDUAL_BANDWIDTH"

\* A field that may be nil, read with the value nil stands for.
FieldOr(x, f, d) == IF f \in DOMAIN x THEN x[f] ELSE d

\* The generated GetOrCreateSubtlv: the list with an entry under key t.
GetOrCreateSubtlv(m, t) == IF t \in DOMAIN m THEN m ELSE Put(m, t, [Type |-> t])

\* A variant of getExtendedISReachSubTLV that makes a new sub-TLV every
\* time.
getExtendedISReachSubTLVFresh(n, t, c) ==
    [n EXCEPT !.Subtlv = Put(@, t, InitContainer([Type |-> t], c))]

\* getExtendedISReachSubTLV: the instance with a sub-TLV of type t, made with
\* its container c initialised when there is none.
getExtendedISReachSubTLV(n, t, c) ==
    IF t \in DOMAIN n.Subtlv THEN n
    ELSE [n EXCEPT !.Subtlv = Put(@, t, InitContainer([Type |-> t], c))]

\* parseAdministrativeGroupSubTLV (sub-TLV 3).
parseAdministrativeGroupSubTLV(r) == binaryToUint32(r.Value)

\* parseLinkLocalRemoteSubTLV (sub-TLV 4).
parseLinkLocalRemoteSubTLV(r) ==
    IF r.Length # 8 \/ Len(r.Value) # 8
    THEN [local |-> U32(0, 0, 0, 0), remote |-> U32(0, 0, 0, 0), err |-> ErrOf("invalid length for link local/remote identifier sub-TLV")]
    ELSE [local |-> binaryToUint32(Slice(r.Value, 0, 4)).val,
          remote |-> binaryToUint32(Slice(r.Value, 4, 8)).val, err |-> NoErr]

\* parseIPv4InterfaceSubTLV (sub-TLVs 6 and 8).
parseIPv4InterfaceSubTLV(r) ==
    IF Len(r.Value) # 4 THEN [str |-> "", err |-> ErrOf("IPv4 interface sub-TLV had incorrect length")]
    ELSE ip4BytesToString(r.Value)

\* parseLinkBandwidthSubTLV (sub-TLVs 9, 10 and 38): the four bytes themselves.
parseLinkBandwidthSubTLV(r) ==
    IF binaryToFloat32(r.Value).err # NoErr
    THEN [b |-> <<>>, err |-> binaryToFloat32(r.Value).err]
    ELSE [b |-> r.Value, err |-> NoErr]

\* The loop of parseUnreservedBandwidthSubTLV from byte i: the next four
\* bytes go under the key len(out).
RECURSIVE unreservedBandwidthLoop(_, _, _)
unreservedBandwidthLoop(r, i, out) ==
    IF ~(i < r.Length) THEN [out |-> out, err |-> NoErr]
    ELSE IF ~SliceOK(r.Value, i, i + 4) \/ binaryToFloat32(SliceCap(r.Value, i, i + 4)).err # NoErr
    THEN [out |-> EmptyMap, err |-> ErrOf("invalid unreserved bandwidth at priority level")]
    ELSE unreservedBandwidthLoop(r, i + 4,
             Put(out, Cardinality(DOMAIN out), SliceCap(r.Value, i, i + 4)))

\* A variant of parseUnreservedBandwidthSubTLV that takes a value of any
\* length.
parseUnreservedBandwidthSubTLVAnyLength(r) == unreservedBandwidthLoop(r, 0, EmptyMap)

\* parseUnreservedBandwidthSubTLV (sub-TLV 11): a value of 32 bytes, four
\* for each priority.
parseUnreservedBandwidthSubTLV(r) ==
    IF r.Length # 32 \/ Len(r.Value) # 32
    THEN [out |-> EmptyMap, err |-> ErrOf("invalid length for unreserved bandwidth TLV")]
    ELSE unreservedBandwidthLoop(r, 0, EmptyMap)

\* adjSIDFlags: the flag names of the byte and its VALUE and LOCAL bits.
adjSIDFlags(flagByte) ==
    [flags |-> (IF BitSet(flagByte, bit0) THEN <<"ADDRESS_FAMILY">> ELSE <<>>)
               \o (IF BitSet(flagByte, bit1) THEN <<"BACKUP">> ELSE <<>>)
               \o (IF BitSet(flagByte, bit2) THEN <<"VALUE">> ELSE <<>>)
               \o (IF BitSet(flagByte, bit3) THEN <<"LOCAL">> ELSE <<>>)
               \o (IF BitSet(flagByte, bit4) THEN <<"SET">> ELSE <<>>),
     isValue |-> BitSet(flagByte, bit2),
     isLocal |-> BitSet(flagByte, bit3)]

\* lanAdjSIDFlags: the same bits for the LAN adjacency SID.
lanAdjSIDFlags(flagByte) ==
    [flags |-> (IF BitSet(flagByte, bit0) THEN <<"ADDRESS_FAMILY">> ELSE <<>>)
               \o (IF BitSet(flagByte, bit1) THEN <<"BACKUP">> ELSE <<>>)
               \o (IF BitSet(flagByte, bit2) THEN <<"VALUE">> ELSE <<>>)
               \o (IF BitSet(flagByte, bit3) THEN <<"LOCAL">> ELSE <<>>)
               \o (IF BitSet(flagByte, bit4) THEN <<"SET">> ELSE <<>>),
     isValue |-> BitSet(flagByte, bit2),
     isLocal |-> BitSet(flagByte, bit3)]

\* A variant of adjSIDValue that takes the label from the first three bytes
\* of a longer value.
adjSIDValueLeading(valbytes, isValue, isLocal) ==
    IF isValue /\ isLocal
    THEN IF Len(valbytes) < 3 THEN [val |-> U32(0, 0, 0, 0), err |-> ErrOf("invalid length for adjacency SID containing label")]
         ELSE binaryToUint32(<<0>> \o Slice(valbytes, 0, 3))
    ELSE IF ~isValue /\ ~isLocal
    THEN IF Len(valbytes) # 4 THEN [val |-> U32(0, 0, 0, 0), err |-> ErrOf("invalid length for adjacency SID containing index")]
         ELSE binaryToUint32(Slice(valbytes, 0, 4))
    ELSE [val |-> U32(0, 0, 0, 0), err |-> ErrOf("invalid combination of value and local flagByte")]

\* adjSIDValue: a 3-byte label when both flags are set, a 4-byte index when
\* both are clear, an error otherwise.
adjSIDValue(valbytes, isValue, isLocal) ==
    IF isValue /\ isLocal
    THEN IF Len(valbytes) # 3 THEN [val |-> U32(0, 0, 0, 0), err |-> ErrOf("invalid length for adjacency SID containing label")]
         ELSE binaryToUint32(<<0>> \o valbytes)
    ELSE IF ~isValue /\ ~isLocal
    THEN IF Len(valbytes) # 4 THEN [val |-> U32(0, 0, 0, 0), err |-> ErrOf("invalid length for adjacency SID containing index")]
         ELSE binaryToUint32(Slice(valbytes, 0, 4))
    ELSE [val |-> U32(0, 0, 0, 0), err |-> ErrOf("invalid combination of value and local flagByte")]

\* parseAdjSIDSubTLV (sub-TLV 31).  The caller receives the two booleans of
\* adjSIDFlags in the other order and passes them on swapped back.
parseAdjSIDSubTLV(r) ==
    IF Len(r.Value) < 5 THEN [sid |-> [Nil |-> TRUE], err |-> ErrOf("invalid length for adjacency SID")]
    ELSE LET f == adjSIDFlags(At(r.Value, 0))
             isLocal == f.isValue
             isValue == f.isLocal
             weight == binaryToUint32(<<0, 0, 0, At(r.Value, 1)>>)
             value == adjSIDValue(Slice(r.Value, 2, Len(r.Value)), isValue, isLocal)
         IN  IF value.err # NoErr THEN [sid |-> [Nil |-> TRUE], err |-> value.err]
             ELSE [sid |-> [Value |-> value.val, Flags |-> f.flags, Weight |-> weight.val[2] % 256],
                   err |-> NoErr]

\* parseLANAdjSIDSubTLV (sub-TLV 32).
parseLANAdjSIDSubTLV(r) ==
    IF Len(r.Value) < 8 THEN [sid |-> [Nil |-> TRUE], err |-> ErrOf("invalid length for LAN AdjSID subTLV")]
    ELSE LET f == lanAdjSIDFlags(At(r.Value, 0))
             isLocal == f.isValue
             isValue == f.isLocal
             weight == binaryToUint32(<<0, 0, 0, At(r.Value, 1)>>)
             neighID == canonicalHexString(Slice(r.Value, 2, 8))
             value == adjSIDValue(Slice(r.Value, 8, Len(r.Value)), isValue, isLocal)
         IN  IF value.err # NoErr THEN [sid |-> [Nil |-> TRUE], err |-> value.err]
             ELSE [sid |-> [Value |-> value.val, Flags |-> f.flags, Weight |-> weight.val[2] % 256,
                            NeighborId |-> neighID],
                   err |-> NoErr]

\* The generated append to a list keyed by the entry's Value: refused when the
\* key is already there.
AppendKeyed(list, entry) ==
    IF entry.Value \in DOMAIN list THEN [map |-> list, err |-> ErrOf("duplicate key for list")]
    ELSE [map |-> Put(list, entry.Value, entry), err |-> NoErr]

\* One sub-TLV s of parseExtendedISReachSubTLVs applied to the instance n:
\* the instance it leaves and the error it adds, if any.
extendedISReachSubTLV(n, s) ==
    LET Kept(e) == [inst |-> n, err |-> e]
        Added(t, c, f, x) ==
            [inst |-> [getExtendedISReachSubTLV(n, t, c) EXCEPT !.Subtlv[t][c][f] = Append(@, x)],
             err |-> NoErr]
        Assigned(t, c, f, x) ==
            [inst |-> [getExtendedISReachSubTLV(n, t, c) EXCEPT !.Subtlv[t][c][f] = x],
             err |-> NoErr]
    IN  CASE s.Type = 3 ->
               LET a == parseAdministrativeGroupSubTLV(s) IN
               IF a.err # NoErr THEN Kept(a.err)
               ELSE Added(IS_REACHABILITY_ADMIN_GROUP, "AdminGroup", "AdminGroup", a.val)
          [] s.Type = 4 ->
               LET l == parseLinkLocalRemoteSubTLV(s) IN
               IF l.err # NoErr THEN Kept(l.err)
               ELSE LET m == GetOrCreateSubtlv(n.Subtlv, IS_REACHABILITY_LINK_ID) IN
                    [inst |-> [n EXCEPT !.Subtlv = Put(m, IS_REACHABILITY_LINK_ID,
                                   SetField(m[IS_REACHABILITY_LINK_ID], "LinkId",
                                            [Local |-> l.local, Remote |-> l.remote]))],
                     err |-> NoErr]
          [] s.Type = 6 ->
               LET a == parseIPv4InterfaceSubTLV(s) IN
               IF a.err # NoErr THEN Kept(a.err)
               ELSE Added(IS_REACHABILITY_IPV4_INTERFACE_ADDRESS, "Ipv4InterfaceAddress", "Address", a.str)
          [] s.Type = 8 ->
               LET a == parseIPv4InterfaceSubTLV(s) IN
               IF a.err # NoErr THEN Kept(a.err)
               ELSE Added(IS_REACHABILITY_IPV4_NEIGHBOR_ADDRESS, "Ipv4NeighborAddress", "Address", a.str)
          [] s.Type = 9 ->
               LET b == parseLinkBandwidthSubTLV(s) IN
               IF b.err # NoErr THEN Kept(b.err)
               ELSE Assigned(IS_REACHABILITY_MAX_LINK_BANDWIDTH, "MaxLinkBandwidth", "Bandwidth", b.b)
          [] s.Type = 10 ->
               LET b == parseLinkBandwidthSubTLV(s) IN
               IF b.err # NoErr THEN Kept(b.err)
               ELSE Assigned(IS_REACHABILITY_MAX_RESERVABLE_BANDWIDTH, "MaxReservableLinkBandwidth", "Bandwidth", b.b)
          [] s.Type = 11 ->
               LET ubw == parseUnreservedBandwidthSubTLV(s) IN
               IF ubw.err # NoErr THEN Kept(ubw.err)
               ELSE LET st == NewSubtlv(n.Subtlv, IS_REACHABILITY_UNRESERVED_BANDWIDTH) IN
                    IF st.err # NoErr THEN Kept(st.err)
                    ELSE [inst |-> [n EXCEPT !.Subtlv = Put(st.map, IS_REACHABILITY_UNRESERVED_BANDWIDTH,
                                        SetField(st.map[IS_REACHABILITY_UNRESERVED_BANDWIDTH], "SetupPriority",
                                                 [pri \in DOMAIN ubw.out |->
                                                     [Priority |-> pri, Bandwidth |-> ubw.out[pri]]]))],
                          err |-> NoErr]
          [] s.Type = 31 ->
               LET adjs == parseAdjSIDSubTLV(s) IN
               IF adjs.err # NoErr THEN Kept(adjs.err)
               ELSE LET m == GetOrCreateSubtlv(n.Subtlv, IS_REACHABILITY_ADJ_SID)
                        a == AppendKeyed(FieldOr(m[IS_REACHABILITY_ADJ_SID], "AdjacencySid", EmptyMap), adjs.sid)
                    IN  [inst |-> [n EXCEPT !.Subtlv = Put(m, IS_REACHABILITY_ADJ_SID,
                                       SetField(m[IS_REACHABILITY_ADJ_SID], "AdjacencySid", a.map))],
                         err |-> a.err]
          [] s.Type = 32 ->
               LET adjs == parseLANAdjSIDSubTLV(s) IN
               IF adjs.err # NoErr THEN Kept(adjs.err)
               ELSE LET m == GetOrCreateSubtlv(n.Subtlv, IS_REACHABILITY_ADJ_LAN_SID)
                        a == AppendKeyed(FieldOr(m[IS_REACHABILITY_ADJ_LAN_SID], "LanAdjacencySid", EmptyMap), adjs.sid)
                    IN  [inst |-> [n EXCEPT !.Subtlv = Put(m, IS_REACHABILITY_ADJ_LAN_SID,
                                       SetField(m[IS_REACHABILITY_ADJ_LAN_SID], "LanAdjacencySid", a.map))],
                         err |-> a.err]
          [] s.Type = 38 ->
               LET b == parseLinkBandwidthSubTLV(s) IN
               IF b.err # NoErr THEN Kept(b.err)
               ELSE Assigned(IS_REACHABILITY_RESIDUAL_BANDWIDTH, "ResidualBandwidth", "Bandwidth", b.b)
          [] OTHER -> Kept(NoErr)

\* parseExtendedISReachSubTLVs: every sub-TLV in turn; an error is added and
\* the loop goes on, and an unknown type is passed over in silence.
RECURSIVE parseExtendedISReachSubTLVs(_, _, _)
parseExtendedISReachSubTLVs(n, subTLVs, e) ==
    IF subTLVs = <<>> THEN [inst |-> n, err |-> e]
    ELSE LET res == extendedISReachSubTLV(n, Head(subTLVs))
         IN  parseExtendedISReachSubTLVs(res.inst, Tail(subTLVs), ErrAdd(e, res.err))

\* A variant of extendedISReachInstance that keeps one instance per neighbour:
\* a later record is decoded into instance 0 when it is already there.
extendedISReachInstanceShared(neighbors, nid, metric, subTLVs) ==
    LET n == IF nid \in DOMAIN neighbors THEN neighbors[nid]
             ELSE [SystemId |-> nid, Instance |-> EmptyMap]
        inst == IF 0 \in DOMAIN n.Instance THEN [n.Instance[0] EXCEPT !.Metric = metric]
                ELSE [Id |-> 0, Metric |-> metric, Subtlv |-> EmptyMap]
        res == parseExtendedISReachSubTLVs(inst, subTLVs, NoErr)
    IN  [neighbors |-> Put(neighbors, nid, [n EXCEPT !.Instance = Put(@, 0, res.inst)]),
         err |-> res.err]

\* The tail of one iteration of processExtendedISReachabilityTLV: the
\* neighbour nid is looked up or created, a new instance numbered by the
\* instances already there gets the metric, and the sub-TLVs are decoded
\* into it.
extendedISReachInstance(neighbors, nid, metric, subTLVs) ==
    LET n == IF nid \in DOMAIN neighbors THEN neighbors[nid]
             ELSE [SystemId |-> nid, Instance |-> EmptyMap]
        id == Cardinality(DOMAIN n.Instance)
        Stored(res) ==
            [neighbors |-> Put(neighbors, nid, [n EXCEPT !.Instance = Put(@, id, res.inst)]),
             err |-> res.err]
    IN  Stored(parseExtendedISReachSubTLVs([Id |-> id, Metric |-> metric, Subtlv |-> EmptyMap],
                                           subTLVs, NoErr))

\* A variant of extendedISReachStep that goes on with the next record after
\* sub-TLV bytes that do not split.
extendedISReachStepGoesOn(v, x, neighbors, e) ==
    IF Len(v) < x + 11
    THEN Left(x, [neighbors |-> neighbors, err |-> ErrAdd(e, ErrOf("invalid length IS Reachability TLV, byte offset, total TLV length"))])
    ELSE LET subTLVLen == At(v, x + 10) IN
         IF Len(v) < x + 11 + subTLVLen
         THEN Left(x, [neighbors |-> neighbors, err |-> ErrAdd(e, ErrOf("invalid length IS Reachability TLV, byte offset, subTLV length"))])
         ELSE LET endPos == x + subTLVLen + 11
                  defmetric == binaryToUint32(<<0, At(v, x + 7), At(v, x + 8), At(v, x + 9)>>)
                  Added(res) == Again(endPos, [neighbors |-> res.neighbors, err |-> ErrAdd(e, res.err)])
                  Record(sub) ==
                      IF sub.err # NoErr
                      THEN Again(endPos, [neighbors |-> neighbors, err |-> ErrAdd(e, ErrOf("invalid subTLVs in ExtendedISReachability TLV"))])
                      ELSE Added(extendedISReachInstance(neighbors, canonicalHexString(Slice(v, x, x + 7)),
                                                         defmetric.val, sub.tlvs))
              IN  Record(TLVBytesToTLVs(Slice(v, x + 11, x + 11 + subTLVLen)))

\* One iteration of the record loop of processExtendedISReachabilityTLV at
\* position x < len: a truncated record adds an error and ends the loop; a
\* complete one becomes a new instance of its neighbour.
extendedISReachStep(v, x, neighbors, e) ==
    IF Len(v) < x + 11
    THEN Left(x, [neighbors |-> neighbors, err |-> ErrAdd(e, ErrOf("invalid length IS Reachability TLV, byte offset, total TLV length"))])
    ELSE LET subTLVLen == At(v, x + 10) IN
         IF Len(v) < x + 11 + subTLVLen
         THEN Left(x, [neighbors |-> neighbors, err |-> ErrAdd(e, ErrOf("invalid length IS Reachability TLV, byte offset, subTLV length"))])
         ELSE LET endPos == x + subTLVLen + 11
                  defmetric == binaryToUint32(<<0, At(v, x + 7), At(v, x + 8), At(v, x + 9)>>)
                  Added(res) == Again(endPos, [neighbors |-> res.neighbors, err |-> ErrAdd(e, res.err)])
                  Record(sub) ==
                      IF sub.err # NoErr
                      THEN Left(x, [neighbors |-> neighbors, err |-> ErrAdd(e, ErrOf("invalid subTLVs in ExtendedISReachability TLV"))])
                      ELSE IF defmetric.err # NoErr
                      THEN Again(endPos, [neighbors |-> neighbors, err |-> ErrAdd(e, defmetric.err)])
                      ELSE Added(extendedISReachInstance(neighbors, canonicalHexString(Slice(v, x, x + 7)),
                                                         defmetric.val, sub.tlvs))
              IN  Record(TLVBytesToTLVs(Slice(v, x + 11, x + 11 + subTLVLen)))

\* The record loop of processExtendedISReachabilityTLV from position x.
RECURSIVE extendedISReachLoop(_, _, _, _)
extendedISReachLoop(v, x, neighbors, e) ==
    IF ~(x < Len(v)) THEN [neighbors |-> neighbors, err |-> e]
    ELSE LET Go(st) == IF st.left THEN st.res
                       ELSE extendedISReachLoop(v, st.x, st.res.neighbors, st.res.err)
         IN  Go(extendedISReachStep(v, x, neighbors, e))

\* processExtendedISReachabilityTLV (type 22): the length is checked before
\* the TLV is looked up.
processExtendedISReachabilityTLV(L, r) ==
    IF Len(r.Value) < 11 THEN Returned(L, ErrOf("invalid Extended IS Reachability TLV (22), length is less than 11 bytes"))
    ELSE LET Stored(L1, res) ==
                 Returned([L1 EXCEPT !.Tlv[EXTENDED_IS_REACHABILITY].ExtendedIsReachability.Neighbor =
                                res.neighbors], res.err)
             Decoded(L1) ==
                 Stored(L1, extendedISReachLoop(r.Value, 0,
                                L1.Tlv[EXTENDED_IS_REACHABILITY].ExtendedIsReachability.Neighbor, NoErr))
         IN  Decoded(getTLVAndInit(L, EXTENDED_IS_REACHABILITY, "ExtendedIsReachability"))

---------------------------------------------------------------------------
(* processTLVs and ISISBytesToLSP. *)

\* The keys of processTLVMap.
SupportedTLVTypes == {1, 22, 129, 132, 134, 135, 137, 232, 236, 242}

\* processTLVMap[r.Type] applied to the LSP and the TLV.
processTLV(L, r) ==
    CASE r.Type = 1 -> processAreaAddressTLV(L, r)
      [] r.Type = 22 -> processExtendedISReachabilityTLV(L, r)
      [] r.Type = 129 -> processNLPIDTLV(L, r)
      [] r.Type = 132 -> processIPInterfaceAddressTLV(L, r)
      [] r.Type = 134 -> processTERouterIDTLV(L, r)
      [] r.Type = 135 -> processExtendedIPReachTLV(L, r)
      [] r.Type = 137 -> processDynamicNameTLV(L, r)
      [] r.Type = 232 -> processIPv6InterfaceAddressTLV(L, r)
      [] r.Type = 236 -> processIPv6ReachabilityTLV(L, r)
      [] r.Type = 242 -> processCapabilityTLV(L, r)

\* The body of the loop of processTLVs on the TLV r, with the LSP L and the
\* errors e gathered so far: a type in the map is decoded and its error
\* added; for any other type the branch is empty.
processTLVsStep(L, e, r) ==
    IF r.Type \in SupportedTLVTypes
    THEN LET Added(res) ==
                 [lsp |-> res.lsp, pErr |-> ErrAdd(e, res.err), panic |-> res.panic, called |-> TRUE]
         IN  Added(processTLV(L, r))
    ELSE [lsp |-> L, pErr |-> e, panic |-> FALSE, called |-> FALSE]

\* processTLVs: the loop over the TLVs from the LSP L and the errors e.  A
\* panic ends it there.
RECURSIVE processTLVs(_, _, _)
processTLVs(L, e, tlvs) ==
    IF tlvs = <<>> THEN [lsp |-> L, pErr |-> e, panic |-> FALSE]
    ELSE LET Go(st) == IF st.panic THEN [lsp |-> st.lsp, pErr |-> st.pErr, panic |-> TRUE]
                       ELSE processTLVs(st.lsp, st.pErr, Tail(tlvs))
         IN  Go(processTLVsStep(L, e, Head(tlvs)))

\* All orders of the elements of a set, as sequences.
RECURSIVE Perms(_)
Perms(S) ==
    IF S = {} THEN {<<>>}
    ELSE UNION {{<<x>> \o p : p \in Perms(S \ {x})} : x \in S}

\* parseLSPFlags with OVERLOAD read from mask 0x02 instead of 0x04.
parseLSPFlagsOverloadBit6(attrs) ==
    LET bitmap == {<<bit0, "PARTITION_REPAIR">>, <<bit1, "ATTACHED_ERROR">>,
                   <<bit2, "ATTACHED_EXPENSE">>, <<bit3, "ATTACHED_DELAY">>,
                   <<bit4, "ATTACHED_DEFAULT">>, <<bit6, "OVERLOAD">>}
    IN  Perms({e[2] : e \in {x \in bitmap : BitSet(attrs, x[1])}})

\* parseLSPFlags: the flags whose bit is set, appended while ranging over a Go
\* map, whose iteration order is unspecified: every order is a possible result.
parseLSPFlags(attrs) ==
    LET bitmap == {<<bit0, "PARTITION_REPAIR">>, <<bit1, "ATTACHED_ERROR">>,
                   <<bit2, "ATTACHED_EXPENSE">>, <<bit3, "ATTACHED_DELAY">>,
                   <<bit4, "ATTACHED_DEFAULT">>, <<bit5, "OVERLOAD">>}
    IN  Perms({e[2] : e \in {x \in bitmap : BitSet(attrs, x[1])}})

\* lspBytes[offset:] panics unless 0 <= offset <= len(lspBytes).
OffsetOK(b, off) == 0 <= off /\ off <= Len(b)

\* The length check of ISISBytesToLSP letting 15 bytes through.
TooShortBelow15(b) == Len(b) < 15

\* The length check of ISISBytesToLSP.
TooShort(b) == Len(b) < 16

\* The LSP ISISBytesToLSP builds from the header bytes of b before it
\* processes the TLVs, with the flags in the order parseLSPFlags gave them.
LSPHeader(b, flags) ==
    [LspId |-> canonicalHexString(Slice(b, 0, 7)) \o "-" \o canonicalHexString(<<At(b, 7)>>),
     SequenceNumber |-> binaryToUint32(Slice(b, 8, 12)).val,
     Checksum |-> binaryToUint32(<<0, 0, At(b, 12), At(b, 13)>>).val[2],
     Flags |-> flags] @@ newISISLSP

---------------------------------------------------------------------------
(* The inputs of the decode: byte strings with an offset.                  *)

\* Fifteen header bytes: LSP ID 4900.0110.0010.00-00, sequence number 300,
\* checksum 0xabcd, no flag set.
Hdr == <<73, 0, 1, 16, 0, 16, 0, 0, 0, 0, 1, 44, 171, 205, 3>>

\* Top-level TLVs, well-formed and not, of every supported type and of
\* unknown types, and two byte strings that do not split.
Chunks ==
    { <<14, 2, 5, 212>>, <<2, 0>>,
      <<137, 1, 97>>, <<137, 2, 98, 99>>,
      <<1, 2, 1, 97>>, <<1, 3, 2, 54, 36>>, <<1, 2, 4, 1>>, <<1, 1, 0>>, <<1, 4, 1, 5, 0, 7>>,
      <<129, 2, 204, 142>>, <<129, 2, 7, 204>>,
      <<132, 4, 10, 0, 0, 1>>, <<132, 3, 10, 0, 0>>,
      <<134, 4, 10, 0, 0, 2>>, <<134, 2, 1, 1>>,
      <<232, 16, 32, 1, 13, 184, 0, 0, 0, 0, 0, 0, 0, 0, 0, 0, 0, 1>>, <<232, 1, 0>>,
      <<242, 5, 1, 1, 1, 1, 3>>, <<242, 2, 1, 1>>, <<242, 9, 1, 1, 1, 1, 0, 19, 2, 0, 1>>,
      <<242, 7, 1, 1, 1, 1, 0, 2, 0>>,
      <<242, 16, 1, 1, 1, 1, 0, 2, 9, 128, 0, 0, 42, 1, 3, 0, 0, 42>>,
      <<242, 16, 1, 1, 1, 1, 0, 2, 9, 128, 0, 0, 42, 1, 5, 0, 0, 42>>,
      <<242, 16, 1, 1, 1, 1, 0, 2, 9, 128, 0, 0, 42, 1, 12, 0, 0, 42>>,
      <<22, 11, 73, 0, 0, 0, 0, 0, 1, 0, 0, 42, 0>>, <<22, 2, 1, 1>>,
      <<22, 17, 73, 0, 0, 0, 0, 0, 1, 0, 0, 10, 6, 6, 4, 10, 0, 0, 1>>,
      <<22, 28, 73, 0, 0, 0, 0, 0, 1, 0, 0, 43, 6, 3, 4, 0, 0, 0, 5,
                73, 0, 0, 0, 0, 0, 1, 0, 0, 44, 0>>,
      <<22, 13, 73, 0, 0, 0, 0, 0, 2, 0, 0, 5, 0, 9, 9>>,
      <<22, 12, 73, 0, 0, 0, 0, 0, 1, 0, 0, 9, 1, 6>>,
      <<22, 13, 73, 0, 0, 0, 0, 0, 3, 0, 0, 9, 3, 6, 1>>,
      <<135, 9, 0, 0, 0, 42, 32, 192, 168, 1, 1>>, <<135, 2, 0, 0>>,
      <<135, 13, 0, 0, 0, 42, 64, 7, 3, 5, 8, 0, 0, 0, 7>>,
      <<135, 8, 0, 0, 0, 1, 64, 2, 9, 0>>, <<135, 11, 0, 0, 0, 1, 64, 2, 9, 0, 0, 0, 0>>,
      <<236, 12, 0, 0, 0, 1, 32, 0, 2, 9, 0, 0, 0, 0>>,
      <<135, 12, 0, 0, 0, 42, 64, 6, 3, 4, 0, 0, 0, 7>>,
      <<135, 14, 0, 0, 0, 42, 64, 8, 3, 6, 0, 0, 0, 0, 0, 7>>,
      <<135, 22, 0, 0, 0, 42, 64, 16, 3, 6, 0, 0, 0, 0, 0, 7, 3, 6, 0, 0, 0, 0, 0, 8>>,
      <<236, 7, 0, 0, 0, 42, 192, 3, 32>>, <<236, 3, 0, 0, 0>>,
      <<236, 23, 0, 0, 0, 1, 0, 129, 1, 2, 3, 4, 5, 6, 7, 8, 9, 10, 11, 12, 13, 14, 15, 16, 17>>,
      <<3>>, <<3, 4, 1>> }

\* The bodies made of at most n chunks.
RECURSIVE Bodies(_)
Bodies(n) ==
    IF n = 0 THEN {<<>>}
    ELSE Bodies(n - 1) \cup {b \o c : b \in Bodies(n - 1), c \in Chunks}

\* LSPs with the fixed header and every body.
BodyInputs == {[bytes |-> Hdr \o b, offset |-> 0] : b \in Bodies(MaxTLVs)}

\* Values the header bytes are drawn from.
HdrByteVals == {0, 171}

\* LSPs whose eight ID bytes vary, and LSPs whose sequence number and
\* checksum bytes vary, each with one hostname TLV.
HeaderInputs ==
    {[bytes |-> id \o <<0, 0, 1, 44, 171, 205, 3, 137, 1, 97>>, offset |-> 0] :
        id \in [1..8 -> HdrByteVals]}
    \cup {[bytes |-> <<73, 0, 1, 16, 0, 16, 0, 0>> \o sc \o <<3, 137, 1, 97>>, offset |-> 0] :
        sc \in [1..6 -> {0, 1, 255}]}

\* LSPs with every flags byte.
FlagInputs ==
    {[bytes |-> SubSeq(Hdr, 1, 14) \o <<f>> \o <<137, 1, 97>>, offset |-> 0] : f \in Byte}

\* Every prefix of an LSP that follows two other bytes, with every offset
\* from one before the start to one past the end.
Framed == <<9, 9>> \o Hdr \o <<137, 1, 97>>

OffsetInputs ==
    {[bytes |-> SubSeq(Framed, 1, n), offset |-> o] : n \in 0..Len(Framed), o \in -1..(Len(Framed) + 1)}

Inputs == BodyInputs \cup HeaderInputs \cup FlagInputs \cup OffsetInputs

---------------------------------------------------------------------------
(* ISISBytesToLSP as a state machine: the header, then one step of the     *)
(* loop of processTLVs per TLV, then the return.                           *)

\* The input after the offset.
Rest == Slice(lspBytes, offset, Len(lspBytes))

Init ==
    /\ \E in \in Inputs : lspBytes = in.bytes /\ offset = in.offset
    /\ tlvBytes = <<>>
    /\ pc = "start"
    /\ rawTLVs = <<>>
    /\ idx = 0
    /\ lsp = NilLSP
    /\ parsed = FALSE
    /\ pErr = NoErr
    /\ err = NoErr
    /\ calls = <<>>
    /\ ret = <<>>
    /\ args = <<>>

\* lspBytes[offset:] with an offset outside the slice: a run-time panic.
OffsetPanics ==
    /\ pc = "start"
    /\ ~OffsetOK(lspBytes, offset)
    /\ pc' = "panic"
    /\ UNCHANGED <<lspBytes, offset, tlvBytes, rawTLVs, idx, lsp, parsed, pErr, err, calls, ret, args>>

\* Fewer than 16 bytes: nil, false and an error.
RejectShort ==
    /\ pc = "start"
    /\ OffsetOK(lspBytes, offset)
    /\ TooShort(Rest)
    /\ pc' = "done"
    /\ lsp' = NilLSP
    /\ parsed' = FALSE
    /\ err' = ErrOf("invalid LSP data provided, need at least 16 bytes")
    /\ UNCHANGED <<lspBytes, offset, tlvBytes, rawTLVs, idx, pErr, calls, ret, args>>

\* The bytes from 15 on do not split: nil, false and an error.
RejectTLVs ==
    /\ pc = "start"
    /\ OffsetOK(lspBytes, offset)
    /\ ~TooShort(Rest)
    /\ TLVBytesToTLVs(Slice(Rest, 15, Len(Rest))).err # NoErr
    /\ tlvBytes' = Slice(Rest, 15, Len(Rest))
    /\ pc' = "done"
    /\ lsp' = NilLSP
    /\ parsed' = FALSE
    /\ err' = ErrOf("invalid TLVs in LSP")
    /\ UNCHANGED <<lspBytes, offset, rawTLVs, idx, pErr, calls, ret, args>>

\* The header is decoded and the TLVs are split; processTLVs starts.
ParseHeader ==
    /\ pc = "start"
    /\ OffsetOK(lspBytes, offset)
    /\ ~TooShort(Rest)
    /\ LET tlvs == TLVBytesToTLVs(Slice(Rest, 15, Len(Rest))) IN
       /\ tlvs.err = NoErr
       /\ rawTLVs' = tlvs.tlvs
    /\ tlvBytes' = Slice(Rest, 15, Len(Rest))
    /\ \E flags \in parseLSPFlags(At(Rest, 14)) : lsp' = LSPHeader(Rest, flags)
    /\ idx' = 1
    /\ pc' = "tlvs"
    /\ UNCHANGED <<lspBytes, offset, parsed, pErr, err, calls, ret, args>>

\* The next TLV has a type in processTLVMap and its decoder returns.
DecodeTLV ==
    /\ pc = "tlvs"
    /\ idx <= Len(rawTLVs)
    /\ \E st \in {processTLVsStep(lsp, pErr, rawTLVs[idx])} :
       /\ st.called
       /\ ~st.panic
       /\ lsp' = st.lsp
       /\ pErr' = st.pErr
    /\ calls' = Append(calls, idx)
    /\ idx' = idx + 1
    /\ UNCHANGED <<lspBytes, offset, tlvBytes, pc, rawTLVs, parsed, err, ret, args>>

\* The next TLV has a type in processTLVMap and its decoder panics: nothing
\* is returned.
DecodeTLVPanics ==
    /\ pc = "tlvs"
    /\ idx <= Len(rawTLVs)
    /\ \E st \in {processTLVsStep(lsp, pErr, rawTLVs[idx])} :
       /\ st.called
       /\ st.panic
       /\ lsp' = st.lsp
       /\ pErr' = st.pErr
    /\ calls' = Append(calls, idx)
    /\ pc' = "panic"
    /\ UNCHANGED <<lspBytes, offset, tlvBytes, rawTLVs, idx, parsed, err, ret, args>>

\* The next TLV has a type that is not in processTLVMap.
SkipUnknownTLV ==
    /\ pc = "tlvs"
    /\ idx <= Len(rawTLVs)
    /\ \E st \in {processTLVsStep(lsp, pErr, rawTLVs[idx])} :
       /\ ~st.called
       /\ lsp' = st.lsp
       /\ pErr' = st.pErr
    /\ idx' = idx + 1
    /\ UNCHANGED <<lspBytes, offset, tlvBytes, pc, rawTLVs, parsed, err, calls, ret, args>>

\* processTLVs is through: the LSP, true and the errors gathered.
ReturnLSP ==
    /\ pc = "tlvs"
    /\ idx > Len(rawTLVs)
    /\ pc' = "done"
    /\ parsed' = TRUE
    /\ err' = pErr
    /\ UNCHANGED <<lspBytes, offset, tlvBytes, rawTLVs, idx, lsp, pErr, calls, ret, args>>

Next ==
    \/ OffsetPanics
    \/ RejectShort
    \/ RejectTLVs
    \/ ParseHeader
    \/ DecodeTLV
    \/ DecodeTLVPanics
    \/ SkipUnknownTLV
    \/ ReturnLSP

Spec == Init /\ [][Next]_vars

---------------------------------------------------------------------------
(* The splitter run by itself on every short byte string.                  *)

\* Byte values of the splitter's inputs: lengths 0..3 and a type byte.
TLVByteVals == {0, 1, 2, 3}

InitTLV ==
    /\ tlvBytes \in SeqsUpTo(TLVByteVals, MaxTLVBytes)
    /\ lspBytes = <<>>
    /\ offset = 0
    /\ pc = "start"
    /\ rawTLVs = <<>>
    /\ idx = 1
    /\ lsp = [Nil |-> TRUE]
    /\ parsed = FALSE
    /\ pErr = NoErr
    /\ err = NoErr
    /\ calls = <<>>
    /\ ret = <<>>
    /\ args = <<>>

SplitTLVs ==
    /\ pc = "start"
    /\ LET r == TLVBytesToTLVs(tlvBytes) IN
       /\ rawTLVs' = r.tlvs
       /\ err' = r.err
    /\ pc' = "done"
    /\ UNCHANGED <<lspBytes, offset, tlvBytes, idx, lsp, parsed, pErr, calls, ret, args>>

NextTLV == SplitTLVs

SpecTLV == InitTLV /\ [][NextTLV]_vars

---------------------------------------------------------------------------
(* The sub-TLV decoders run by themselves on the sub-TLVs of one record.     *)

\* The most sub-TLVs in one input beyond a single one.
MaxSubTLVs == 2

\* The bytes of a sub-TLV of type t with the value v.
SubTLV(t, v) == <<t, Len(v)>> \o v

\* Adjacency SID (31) and LAN adjacency SID (32) sub-TLVs: every pairing of
\* the VALUE (0x20) and LOCAL (0x10) flags, alone and with other flags, with
\* 0 to 5 bytes after the weight (and the neighbour ID); and values too
\* short to hold the flags, the weight and the neighbour ID.
AdjSIDInputs ==
    {SubTLV(31, <<f, w>> \o SubSeq(<<1, 2, 3, 4, 5>>, 1, n)) :
        f \in {0, 16, 32, 48, 64, 176}, w \in {0, 9}, n \in 0..5}
    \cup {SubTLV(32, <<f, 9, 10, 11, 12, 13, 14, 15>> \o SubSeq(<<1, 2, 3, 4, 5>>, 1, n)) :
        f \in {0, 16, 32, 48, 64, 176}, n \in 0..5}
    \cup {SubTLV(31, <<>>), SubTLV(31, <<48>>), SubTLV(32, <<48, 9, 10, 11, 12, 13, 14>>)}

\* Unreserved bandwidth sub-TLVs (11) of 0, 4, 28, 31, 32, 33 and 36 bytes,
\* byte k holding k + d.
UnreservedBandwidthInputs ==
    {SubTLV(11, [k \in 1..n |-> k + d]) : n \in {0, 4, 28, 31, 32, 33, 36}, d \in {0, 100}}

\* The sub-TLVs that inputs of several sub-TLVs are made of.
SubTLVPool ==
    { SubTLV(31, <<48, 9, 1, 2, 3>>), SubTLV(31, <<0, 9, 0, 1, 2, 3>>), SubTLV(31, <<48, 7, 1, 2, 3>>),
      SubTLV(31, <<48, 9, 1, 2, 3, 4>>), SubTLV(32, <<48, 9, 10, 11, 12, 13, 14, 15, 1, 2, 3>>),
      SubTLV(32, <<16, 9, 10, 11, 12, 13, 14, 15, 1, 2, 3>>),
      SubTLV(11, [k \in 1..32 |-> k]), SubTLV(11, [k \in 1..4 |-> k]),
      SubTLV(6, <<10, 0, 0, 1>>), SubTLV(250, <<1>>),
      SubTLV(6, <<10, 0, 0, 2>>), SubTLV(8, <<10, 0, 0, 3>>), SubTLV(6, <<10, 0>>),
      SubTLV(3, <<0, 0, 0, 1>>), SubTLV(3, <<0, 0, 0, 2>>),
      SubTLV(4, <<0, 0, 0, 1, 0, 0, 0, 2>>), SubTLV(4, <<0, 0, 0, 3, 0, 0, 0, 4>>),
      SubTLV(9, <<1, 2, 3, 4>>), SubTLV(9, <<5, 6, 7, 8>>), SubTLV(10, <<1, 2, 3, 4>>),
      SubTLV(38, <<1, 2, 3, 4>>), SubTLV(38, <<4, 3, 2, 1>>) }

\* The byte strings that begin with start and go on with at most n byte
\* strings of the pool.
RECURSIVE Concats(_, _, _)
Concats(start, pool, n) ==
    IF n = 0 THEN {start}
    ELSE Concats(start, pool, n - 1) \cup {b \o c : b \in Concats(start, pool, n - 1), c \in pool}

\* The sub-TLV bytes of a record are one adjacency SID or unreserved
\* bandwidth sub-TLV, or at most MaxSubTLVs sub-TLVs of the pool; the
\* sub-TLVs are those TLVBytesToTLVs makes of them.
InitSub ==
    /\ tlvBytes \in AdjSIDInputs \cup UnreservedBandwidthInputs \cup Concats(<<>>, SubTLVPool, MaxSubTLVs)
    /\ rawTLVs = TLVBytesToTLVs(tlvBytes).tlvs
    /\ lspBytes = <<>>
    /\ offset = 0
    /\ pc = "sub"
    /\ idx = 0
    /\ lsp = NilLSP
    /\ parsed = FALSE
    /\ pErr = NoErr
    /\ err = NoErr
    /\ calls = <<>>
    /\ ret = <<>>
    /\ args = <<>>

\* parseExtendedISReachSubTLVs on the new instance 0 of a neighbour.
ParseISReachSubTLVs ==
    /\ pc = "sub"
    /\ ret' = parseExtendedISReachSubTLVs([Id |-> 0, Metric |-> U32(0, 0, 0, 10), Subtlv |-> EmptyMap],
                                          rawTLVs, NoErr)
    /\ pc' = "isreach"
    /\ UNCHANGED <<lspBytes, offset, tlvBytes, rawTLVs, idx, lsp, parsed, pErr, err, calls, args>>

NextSub == ParseISReachSubTLVs

SpecSub == InitSub /\ [][NextSub]_vars

---------------------------------------------------------------------------
(* RenderNotifications: an LSP as gNMI notifications.                        *)

\* time.Time.UnixNano of the time t.sec seconds and t.nsec nanoseconds after
\* the epoch.
UnixNano(t) == t.sec * 1000000000 + t.nsec

\* The StringSlicePrefix of rArgs: the path to the LSP, element by element.
StringSlicePrefix(L, a) ==
    <<"network-instances", "network-instance", a.NetworkInstance,
      "protocols", "protocol", "ISIS", a.ProtocolInstance,
      "isis", "levels", "level", Dec(a.Level),
      "link-state-database", "lsp", L.LspId>>

\* ygot.StringToStructuredPath of the path fmt.Sprintf makes of the network
\* instance, the protocol instance, the level and the LSP ID: one element
\* for each name between slashes, with the keys written in brackets.  The
\* names are free of the characters a path is written with.
PathElemPrefix(L, a) ==
    [Elem |-> <<[Name |-> "network-instances", Key |-> EmptyMap],
                [Name |-> "network-instance", Key |-> [name |-> a.NetworkInstance]],
                [Name |-> "protocols", Key |-> EmptyMap],
                [Name |-> "protocol", Key |-> [identifier |-> "ISIS", name |-> a.ProtocolInstance]],
                [Name |-> "isis", Key |-> EmptyMap],
                [Name |-> "levels", Key |-> EmptyMap],
                [Name |-> "level", Key |-> [level_number |-> Dec(a.Level)]],
                [Name |-> "link-state-database", Key |-> EmptyMap],
                [Name |-> "lsp", Key |-> [lsp_id |-> L.LspId]]>>,
     err |-> NoErr]

\* rArgs of RenderNotifications: the string prefix, replaced by the
\* structured one when UsePathElem is set.
GNMINotificationsConfig(L, a) ==
    IF a.UsePathElem
    THEN LET Structured(p) ==
                 IF p.err # NoErr
                 THEN [rArgs |-> <<>>, err |-> ErrOf("cannot create prefix path")]
                 ELSE [rArgs |-> [UsePathElem |-> TRUE, StringSlicePrefix |-> <<>>,
                                  PathElemPrefix |-> p.Elem],
                       err |-> NoErr]
         IN  Structured(PathElemPrefix(L, a))
    ELSE [rArgs |-> [UsePathElem |-> FALSE, StringSlicePrefix |-> StringSlicePrefix(L, a),
                     PathElemPrefix |-> <<>>],
          err |-> NoErr]

\* ygot.TogNMINotifications: one notification with the timestamp, the prefix
\* in the form UsePathElem asks for, and the set leaves of the struct as its
\* updates (kept here as the struct itself).
TogNMINotifications(L, ts, cfg) ==
    [notifications |->
        <<[Timestamp |-> ts,
           Prefix |-> IF cfg.UsePathElem THEN [Element |-> <<>>, Elem |-> cfg.PathElemPrefix]
                      ELSE [Element |-> cfg.StringSlicePrefix, Elem |-> <<>>],
           Update |-> L,
           Atomic |-> FALSE]>>,
     err |-> NoErr]

\* A variant of RenderNotifications that renders an LSP without an LSP ID
\* under an empty one.
RenderNotificationsUnchecked(L, a) ==
    IF IsNil(L) THEN [notifications |-> <<>>, err |-> ErrOf("cannot handle nil LSP")]
    ELSE LET Rendered(n) ==
                 [notifications |-> [k \in DOMAIN n.notifications |->
                                        [n.notifications[k] EXCEPT !.Atomic = TRUE]],
                  err |-> NoErr]
             Configured(cfg) == Rendered(TogNMINotifications(L, UnixNano(a.Timestamp), cfg.rArgs))
         IN  Configured(GNMINotificationsConfig([LspId |-> ""] @@ L, a))

\* A variant of RenderNotifications that returns the notifications as
\* TogNMINotifications made them.
RenderNotificationsAsMade(L, a) ==
    IF IsNil(L) THEN [notifications |-> <<>>, err |-> ErrOf("cannot handle nil LSP")]
    ELSE IF "LspId" \notin DOMAIN L
    THEN [notifications |-> <<>>, err |-> ErrOf("cannot handle nil LSP ID")]
    ELSE LET Configured(cfg) == TogNMINotifications(L, UnixNano(a.Timestamp), cfg.rArgs)
         IN  Configured(GNMINotificationsConfig(L, a))

\* RenderNotifications: no notifications without an LSP or without its ID;
\* otherwise the notifications of TogNMINotifications, each marked atomic.
RenderNotifications(L, a) ==
    IF IsNil(L) THEN [notifications |-> <<>>, err |-> ErrOf("cannot handle nil LSP")]
    ELSE IF "LspId" \notin DOMAIN L
    THEN [notifications |-> <<>>, err |-> ErrOf("cannot handle nil LSP ID")]
    ELSE LET Rendered(n) ==
                 IF n.err # NoErr THEN [notifications |-> <<>>, err |-> n.err]
                 ELSE [notifications |-> [k \in DOMAIN n.notifications |->
                                             [n.notifications[k] EXCEPT !.Atomic = TRUE]],
                       err |-> NoErr]
             Configured(cfg) ==
                 IF cfg.err # NoErr THEN [notifications |-> <<>>, err |-> cfg.err]
                 ELSE Rendered(TogNMINotifications(L, UnixNano(a.Timestamp), cfg.rArgs))
         IN  Configured(GNMINotificationsConfig(L, a))

\* The highest level of the rendering inputs.
MaxLevel == 2

\* The LSPs to render: none, LSPs without an LSP ID, and LSPs with one, as
\* made by hand and as decoded.
RenderLSPs ==
    { NilLSP, newISISLSP,
      [Tlv |-> processTLVs(newISISLSP, NoErr, TLVBytesToTLVs(<<137, 1, 97>>).tlvs).lsp.Tlv],
      [LspId |-> "0000.4000.ce39.00-00"] @@ newISISLSP,
      LSPHeader(Hdr, <<>>),
      processTLVs(LSPHeader(Hdr, <<"OVERLOAD">>), NoErr,
                  TLVBytesToTLVs(<<137, 1, 97, 132, 4, 10, 0, 0, 1>>).tlvs).lsp }

\* The LSP and the context of a rendering.
InitRender ==
    /\ lsp \in RenderLSPs
    /\ args \in [NetworkInstance : {"DEFAULT", "RED"},
                 ProtocolInstance : {"15169", "core"},
                 Level : 1..MaxLevel,
                 Timestamp : [sec : {0, 1}, nsec : {0, 999999999}],
                 UsePathElem : BOOLEAN]
    /\ lspBytes = <<>>
    /\ offset = 0
    /\ tlvBytes = <<>>
    /\ pc = "render"
    /\ rawTLVs = <<>>
    /\ idx = 0
    /\ parsed = FALSE
    /\ pErr = NoErr
    /\ err = NoErr
    /\ calls = <<>>
    /\ ret = <<>>

Render ==
    /\ pc = "render"
    /\ ret' = RenderNotifications(lsp, args)
    /\ pc' = "rendered"
    /\ UNCHANGED <<lspBytes, offset, tlvBytes, rawTLVs, idx, lsp, parsed, pErr, err, calls, args>>

NextRender == Render

SpecRender == InitRender /\ [][NextRender]_vars

---------------------------------------------------------------------------
(* The decoding loops run one iteration at a time.                           *)

\* The most entries in the value a loop runs over.
MaxEntries == 2

\* The loops, the bytes each may run over (at most MaxEntries entries, each
\* the value of a chunk of the loop's TLV type, or the flags of an SR
\* capability sub-TLV and at most MaxEntries descriptors), the position it
\* starts at and the result it starts with.
\* The IPv4 entries added to those of the chunks are a /24 with the up/down
\* bit, a /20, a /24 with both bits and a Prefix-SID, a /24 whose sub-TLV
\* bytes do not split, a /16 whose sub-TLV length byte is missing and two
\* prefix lengths above 32.
\* The SRGB descriptors are a label, an index, an inner type other than 1,
\* inner lengths of 5 and 12, an index cut short and a descriptor cut short.
LoopInputs ==
    LET ChunkValues(t) == {Slice(c, 2, Len(c)) : c \in {d \in Chunks : d[1] = t}}
        SRGBDescriptors ==
            { <<0, 0, 42, 1, 3, 0, 0, 42>>, <<0, 0, 42, 1, 4, 0, 0, 0, 42>>, <<0, 0, 42, 9, 3, 0, 0, 1>>,
              <<0, 0, 42, 1, 5, 0, 0, 42>>, <<0, 0, 42, 1, 12, 0, 0, 42>>, <<0, 0, 42, 1, 4, 0, 0, 42>>,
              <<0, 0>> }
        IPv4Entries ==
            { <<0, 1, 0, 5, 152, 10, 1, 255>>, <<0, 0, 0, 7, 20, 10, 16, 240>>,
              <<0, 1, 0, 5, 216, 10, 1, 255, 7, 3, 5, 8, 0, 0, 0, 7>>,
              <<0, 0, 0, 9, 88, 10, 2, 3, 3, 9, 1>>, <<0, 0, 0, 9, 80, 10, 2>>,
              <<0, 0, 0, 42, 63, 0, 0, 0, 0, 0, 0, 0, 0, 0>>, <<0, 0, 0, 42, 33, 10, 0, 0, 0, 128>> }
    IN
        {[loop |-> "TLVBytesToTLVs", bytes |-> b, x |-> 0, res |-> [tlvs |-> <<>>, err |-> NoErr]] :
            b \in SeqsUpTo(TLVByteVals, MaxTLVBytes)}
        \cup {[loop |-> "processAreaAddressTLV", bytes |-> b, x |-> 0,
               res |-> [addrs |-> <<>>, err |-> NoErr, panic |-> FALSE]] :
            b \in SeqsUpTo({0, 1, 2}, MaxTLVBytes)}
        \cup {[loop |-> "processExtendedISReachabilityTLV", bytes |-> b, x |-> 0,
               res |-> [neighbors |-> EmptyMap, err |-> NoErr]] :
            b \in {c \in Concats(<<>>, ChunkValues(22), MaxEntries) : Len(c) >= 11}}
        \cup {[loop |-> "processExtendedIPReachTLV", bytes |-> b, x |-> 0,
               res |-> ReachDone(EmptyMap, NoErr)] :
            b \in Concats(<<>>, ChunkValues(135) \cup IPv4Entries, MaxEntries)}
        \cup {[loop |-> "processIPv6ReachabilityTLV", bytes |-> b, x |-> 0,
               res |-> ReachDone(EmptyMap, NoErr)] : b \in Concats(<<>>, ChunkValues(236), MaxEntries)}
        \cup {[loop |-> "processSRCapabilitySubTLV", bytes |-> b, x |-> 1,
               res |-> [descrs |-> EmptyMap, err |-> NoErr, fatal |-> FALSE, panic |-> FALSE]] :
            b \in Concats(<<128>>, SRGBDescriptors, MaxEntries)}

\* tlvBytes holds the bytes the loop runs over, idx the read position, ret
\* the result so far, calls the positions the iterations ran at, and pc the
\* loop until it is left.
InitLoops ==
    /\ \E in \in LoopInputs :
          /\ pc = in.loop
          /\ tlvBytes = in.bytes
          /\ idx = in.x
          /\ ret = in.res
    /\ calls = <<>>
    /\ lspBytes = <<>>
    /\ offset = 0
    /\ rawTLVs = <<>>
    /\ lsp = NilLSP
    /\ parsed = FALSE
    /\ pErr = NoErr
    /\ err = NoErr
    /\ args = <<>>

\* The condition of a for loop failed: the loop is left where it stands.
LoopEnds ==
    /\ pc # "left"
    /\ ~(idx < Len(tlvBytes))
    /\ pc' = "left"
    /\ UNCHANGED <<lspBytes, offset, tlvBytes, rawTLVs, idx, lsp, parsed, pErr, err, calls, ret, args>>

\* An iteration st that began at idx: the loop is left, or goes on from the
\* position the iteration set.
Iterated(st) ==
    /\ pc' = IF st.left THEN "left" ELSE pc
    /\ idx' = st.x
    /\ ret' = st.res
    /\ calls' = Append(calls, idx)
    /\ UNCHANGED <<lspBytes, offset, tlvBytes, rawTLVs, lsp, parsed, pErr, err, args>>

TLVIteration ==
    /\ pc = "TLVBytesToTLVs" /\ idx < Len(tlvBytes)
    /\ Iterated(TLVStep(tlvBytes, idx, ret.tlvs))

AreaAddressIteration ==
    /\ pc = "processAreaAddressTLV" /\ idx < Len(tlvBytes)
    /\ Iterated(areaAddressStep(tlvBytes, idx, ret.addrs))

ExtendedISReachIteration ==
    /\ pc = "processExtendedISReachabilityTLV" /\ idx < Len(tlvBytes)
    /\ Iterated(extendedISReachStep(tlvBytes, idx, ret.neighbors, ret.err))

ExtendedIPReachIteration ==
    /\ pc = "processExtendedIPReachTLV" /\ idx < Len(tlvBytes)
    /\ Iterated(extendedIPReachStep(tlvBytes, idx, ret.prefixes, ret.err))

IPv6ReachIteration ==
    /\ pc = "processIPv6ReachabilityTLV" /\ idx < Len(tlvBytes)
    /\ Iterated(ipv6ReachStep(tlvBytes, idx, ret.prefixes, ret.err))

SRGBIteration ==
    /\ pc = "processSRCapabilitySubTLV" /\ idx < Len(tlvBytes)
    /\ Iterated(srgbStep(tlvBytes, idx, Len(calls), ret.descrs, ret.err))

NextLoops ==
    \/ LoopEnds
    \/ TLVIteration
    \/ AreaAddressIteration
    \/ ExtendedISReachIteration
    \/ ExtendedIPReachIteration
    \/ IPv6ReachIteration
    \/ SRGBIteration

\* The decode runs on one thread that nothing suspends: an iteration that
\* can run does run.
SpecLoops == InitLoops /\ [][NextLoops]_vars /\ WF_vars(NextLoops)

---------------------------------------------------------------------------
(* Properties of the splitter. *)

RECURSIVE Flatten(_)
Flatten(tlvs) ==
    IF tlvs = <<>> THEN <<>>
    ELSE <<Head(tlvs).Type, Head(tlvs).Length>> \o Head(tlvs).Value \o Flatten(Tail(tlvs))

\* C1: when TLVBytesToTLVs succeeds, the records' type byte, length byte and
\* value bytes, concatenated in order, are the input exactly, and every record
\* has len(Value) = Length.
C1_SplitRoundTrip ==
    (pc = "done" /\ err = NoErr) =>
        /\ Flatten(rawTLVs) = tlvBytes
        /\ \A k \in DOMAIN rawTLVs : Len(rawTLVs[k].Value) = rawTLVs[k].Length

\* A successful split of an input holding two records, the first with a value.
C1_Witness ==
    /\ pc = "done" /\ err = NoErr
    /\ Len(rawTLVs) = 2
    /\ rawTLVs[1].Length = 1
    /\ Len(tlvBytes) = 5

\* The positions at which the scan from position 0 starts a record: the least
\* set holding 0 and, with a position p whose record fits, the position after
\* that record.
RecordFits(b, p) == p + 1 < Len(b) /\ p + 2 + At(b, p + 1) <= Len(b)

StartsClosed(b, S) ==
    /\ 0 \in S
    /\ \A p \in S : (p < Len(b) /\ RecordFits(b, p)) => (p + 2 + At(b, p + 1)) \in S

RecordStarts(b) ==
    CHOOSE S \in SUBSET (0..Len(b)) :
        /\ StartsClosed(b, S)
        /\ \A T \in SUBSET (0..Len(b)) : StartsClosed(b, T) => S \subseteq T

\* Some record of the scan has a type byte and no length byte, or a declared
\* length larger than what is left after the length byte.
Truncated(b) ==
    \E p \in RecordStarts(b) :
        /\ p < Len(b)
        /\ \/ p = Len(b) - 1
           \/ At(b, p + 1) > Len(b) - (p + 2)

\* C2: TLVBytesToTLVs fails exactly when a record of the scan is truncated (a
\* type byte with no length byte, or a length past the end); it succeeds on
\* every other input, the empty one included; a failure returns no records.
C2_SplitFailsIffTruncated ==
    pc = "done" =>
        /\ (err # NoErr) <=> Truncated(tlvBytes)
        /\ (err # NoErr) => rawTLVs = <<>>

\* A failure on the second record: the first record was carved and dropped.
C2_Witness ==
    /\ pc = "done" /\ err # NoErr
    /\ Len(tlvBytes) >= 3
    /\ RecordFits(tlvBytes, 0)

---------------------------------------------------------------------------
(* Properties of ISISBytesToLSP. *)

\* C3: for every input and every offset within it that leaves fewer than 16
\* bytes, ISISBytesToLSP returns no LSP, parsed = false and an error.
C3_ShortInputRejected ==
    (0 <= offset /\ offset <= Len(lspBytes) /\ Len(lspBytes) - offset < 16 /\ pc # "start")
        => (pc = "done" /\ IsNil(lsp) /\ parsed = FALSE /\ err # NoErr)

\* Fifteen bytes after an offset of two were rejected.
C3_Witness ==
    /\ pc = "done" /\ offset = 2 /\ Len(lspBytes) = 17
    /\ IsNil(lsp) /\ ~parsed /\ err # NoErr

\* The record starts of the scan of b, grown from S one record at a time.
RECURSIVE StartsFrom(_, _)
StartsFrom(b, S) ==
    LET T == S \cup {p + 2 + At(b, p + 1) : p \in {q \in S : q < Len(b) /\ RecordFits(b, q)}}
    IN  IF T = S THEN S ELSE StartsFrom(b, T)

\* Every record of the scan of b has its length byte and its whole value.
Splits(b) == \A p \in StartsFrom(b, {0}) : p < Len(b) => RecordFits(b, p)

\* C4: whenever at least 16 bytes remain after the offset, the result is
\* parsed = true with an LSP, whatever follows the header: parsed = false is
\* kept for failures of the header.
C4_ParsedWheneverHeaderFits ==
    (pc = "done" /\ OffsetOK(lspBytes, offset) /\ Len(Rest) >= 16)
        => (parsed = TRUE /\ ~IsNil(lsp))

\* What ISISBytesToLSP does: a result is parsed = false exactly when fewer
\* than 16 bytes remain after the offset or the bytes from position 15 on do
\* not split into TLVs; it then carries no LSP and an error.  Every other
\* result is parsed = true with an LSP that carries the header fields.
C4_ParsedUnlessShortOrUnsplit ==
    pc = "done" =>
        /\ (parsed = FALSE) <=> (Len(Rest) < 16 \/ ~Splits(Slice(Rest, 15, Len(Rest))))
        /\ (parsed = FALSE) => (IsNil(lsp) /\ err # NoErr)
        /\ (parsed = TRUE) =>
              /\ ~IsNil(lsp)
              /\ {"LspId", "SequenceNumber", "Checksum", "Flags", "Tlv"} \subseteq DOMAIN lsp

\* Enough bytes for the header, TLV bytes that do not split: parsed = false.
C4_Witness ==
    /\ pc = "done" /\ Len(Rest) >= 18
    /\ ~Splits(Slice(Rest, 15, Len(Rest)))
    /\ parsed = FALSE /\ IsNil(lsp)

\* The indices of the TLVs whose type has a decoder, in order.
RECURSIVE SupportedFrom(_, _)
SupportedFrom(tlvs, k) ==
    IF k > Len(tlvs) THEN <<>>
    ELSE (IF tlvs[k].Type \in {1, 22, 129, 132, 134, 135, 137, 232, 236, 242}
          THEN <<k>> ELSE <<>>) \o SupportedFrom(tlvs, k + 1)

\* C5: once the TLV bytes have split, every TLV of a supported type is handed
\* to its decoder, once and in input order, by the time the decode is over,
\* whatever the decoders of the earlier TLVs did.
C5_EverySupportedTLVDecoded ==
    (pc \in {"done", "panic"} /\ rawTLVs # <<>>) => calls = SupportedFrom(rawTLVs, 1)

\* C6: for every input and every offset within it, the decode returns a
\* result: it never leaves the bytes it is decoding, which would panic.
C6_NeverOutOfRange ==
    (0 <= offset /\ offset <= Len(lspBytes)) => pc # "panic"

\* Two lowercase hex characters of a byte.
Hex2(b) == HexDigits[(b \div 16) + 1] \o HexDigits[(b % 16) + 1]

\* C7: a decoded LSP has the 20-character lsp_id XXXX.XXXX.XXXX.YY-ZZ of bytes
\* 0..5, 6 and 7 after the offset, the big-endian u32 of bytes 8..11 as its
\* sequence number and the big-endian u16 of bytes 12..13 as its checksum.
C7_HeaderFields ==
    (pc = "done" /\ parsed = TRUE) =>
        LET B(k) == At(Rest, k) IN
        /\ lsp.LspId = Hex2(B(0)) \o Hex2(B(1)) \o "." \o Hex2(B(2)) \o Hex2(B(3)) \o "."
                       \o Hex2(B(4)) \o Hex2(B(5)) \o "." \o Hex2(B(6)) \o "-" \o Hex2(B(7))
        /\ Len(lsp.LspId) = 20
        /\ lsp.SequenceNumber = <<B(8) * 256 + B(9), B(10) * 256 + B(11)>>
        /\ lsp.Checksum = B(12) * 256 + B(13)

\* An LSP whose ID, sequence number and checksum bytes are not all alike.
C7_Witness ==
    /\ pc = "done" /\ parsed = TRUE
    /\ lsp.LspId = "4900.0110.0010.00-00"
    /\ lsp.SequenceNumber = <<1, 65280>>
    /\ lsp.Checksum = 511

\* The flag each mask of the flags byte stands for.
FlagOfMask == {<<128, "PARTITION_REPAIR">>, <<64, "ATTACHED_ERROR">>, <<32, "ATTACHED_EXPENSE">>,
               <<16, "ATTACHED_DELAY">>, <<8, "ATTACHED_DEFAULT">>, <<4, "OVERLOAD">>}

\* C8: the flag list holds each of the six flags exactly when its mask is set
\* in the flags byte, at most once, and nothing else.
C8_FlagsMatchMasks ==
    (pc \in {"tlvs", "done"} /\ ~IsNil(lsp)) =>
        /\ \A m \in FlagOfMask :
              (m[2] \in Range(lsp.Flags)) <=> ((At(Rest, 14) \div m[1]) % 2 = 1)
        /\ Range(lsp.Flags) \subseteq {m[2] : m \in FlagOfMask}
        /\ Cardinality(Range(lsp.Flags)) = Len(lsp.Flags)

\* The flags byte 0xbb: four flags, and both low bits, which stand for none.
C8_Witness ==
    /\ pc = "done" /\ parsed = TRUE
    /\ At(Rest, 14) = 187
    /\ Len(lsp.Flags) = 4

\* The TLV types whose container holds one list, and that list.
ListTypes == {DYNAMIC_NAME, AREA_ADDRESSES, NLPID, IPV4_INTERFACE_ADDRESSES,
              IPV6_INTERFACE_ADDRESSES, IPV4_TE_ROUTER_ID}

ListOf(L, t) ==
    CASE t = DYNAMIC_NAME -> L.Tlv[t].Hostname.Hostname
      [] t = AREA_ADDRESSES -> L.Tlv[t].AreaAddress.Address
      [] t = NLPID -> L.Tlv[t].Nlpid.Nlpid
      [] t = IPV4_INTERFACE_ADDRESSES -> L.Tlv[t].Ipv4InterfaceAddresses.Address
      [] t = IPV6_INTERFACE_ADDRESSES -> L.Tlv[t].Ipv6InterfaceAddresses.Address
      [] t = IPV4_TE_ROUTER_ID -> L.Tlv[t].Ipv4TeRouterId.RouterId

\* The keyed entries of the container of any other TLV type.
EntriesOf(L, t) ==
    CASE t = EXTENDED_IPV4_REACHABILITY -> L.Tlv[t].ExtendedIpv4Reachability.Prefix
      [] t = IPV6_REACHABILITY -> L.Tlv[t].Ipv6Reachability.Prefix
      [] t = ROUTER_CAPABILITY -> CapabilityOf(L.Tlv[t])
      [] t = EXTENDED_IS_REACHABILITY -> L.Tlv[t].ExtendedIsReachability.Neighbor

\* Everything the LSP L stores is in M as it was: each container is still the
\* one of its type, a list of L starts the list of M, and a keyed entry of L
\* is the same in M (for a neighbour, each of its instances is).
Keeps(L, M) ==
    \A t \in DOMAIN L.Tlv :
        /\ t \in DOMAIN M.Tlv
        /\ IF t \in ListTypes THEN IsPrefix(ListOf(L, t), ListOf(M, t))
           ELSE \A k \in DOMAIN EntriesOf(L, t) :
                   /\ k \in DOMAIN EntriesOf(M, t)
                   /\ IF t = EXTENDED_IS_REACHABILITY
                      THEN \A i \in DOMAIN EntriesOf(L, t)[k].Instance :
                              /\ i \in DOMAIN EntriesOf(M, t)[k].Instance
                              /\ EntriesOf(M, t)[k].Instance[i] = EntriesOf(L, t)[k].Instance[i]
                      ELSE EntriesOf(M, t)[k] = EntriesOf(L, t)[k]

\* The list a TLV decoded by itself, on an LSP with no TLV, leaves under t.
ItemsAlone(r, t) ==
    LET alone == processTLV(newISISLSP, r).lsp
    IN  IF t \in DOMAIN alone.Tlv THEN ListOf(alone, t) ELSE <<>>

\* C9: the LSP holds one container per TLV type, under that type; decoding
\* one more TLV replaces and removes nothing stored before, and the items of
\* a list-valued type go after the items already in its container.
C9_ContainersOnlyGrow ==
    [][(pc = "tlvs" /\ idx <= Len(rawTLVs) /\ pc' = "tlvs") =>
          /\ \A t \in DOMAIN lsp'.Tlv : lsp'.Tlv[t].Type = t
          /\ Keeps(lsp, lsp')
          /\ \A t \in ListTypes \cap DOMAIN lsp'.Tlv :
                ListOf(lsp', t) =
                    (IF t \in DOMAIN lsp.Tlv THEN ListOf(lsp, t) ELSE <<>>)
                    \o (IF rawTLVs[idx].Type \in SupportedTLVTypes
                           /\ t \in DOMAIN processTLV(newISISLSP, rawTLVs[idx]).lsp.Tlv
                        THEN ItemsAlone(rawTLVs[idx], t) ELSE <<>>)]_vars

\* Two Area Addresses TLVs were decoded: one container, both addresses, the
\* second TLV's after the first's.
C9_Witness ==
    /\ pc = "done" /\ parsed = TRUE
    /\ Len(rawTLVs) = 2
    /\ rawTLVs[1].Type = 1 /\ rawTLVs[2].Type = 1
    /\ lsp.Tlv[AREA_ADDRESSES].AreaAddress.Address = <<"36.24", "61.">>

\* The TLVs whose type has a decoder, in order.
RECURSIVE SupportedOnly(_)
SupportedOnly(tlvs) ==
    IF tlvs = <<>> THEN <<>>
    ELSE (IF Head(tlvs).Type \in {1, 22, 129, 132, 134, 135, 137, 232, 236, 242}
          THEN <<Head(tlvs)>> ELSE <<>>) \o SupportedOnly(Tail(tlvs))

\* C10: a top-level TLV of a type without a decoder adds a non-fatal
\* diagnostic to the error returned with parsed = true.
C10_UnknownTypeDiagnosed ==
    (pc = "done" /\ parsed = TRUE
        /\ \E k \in DOMAIN rawTLVs : rawTLVs[k].Type \notin {1, 22, 129, 132, 134, 135, 137, 232, 236, 242})
        => err # NoErr

\* What processTLVs does: a top-level TLV of a type without a decoder leaves
\* the LSP unchanged and adds nothing to the error: the LSP and the error
\* returned are those of the supported TLVs alone, with parsed = true.
C10_UnknownTypeIgnored ==
    (pc = "done" /\ rawTLVs # <<>>) =>
        LET alone == processTLVs(LSPHeader(Rest, lsp.Flags), NoErr, SupportedOnly(rawTLVs))
        IN  /\ parsed = TRUE
            /\ lsp = alone.lsp
            /\ err = alone.pErr

\* An unknown TLV before a hostname: the hostname alone is in the LSP and no
\* error is returned.
C10_Witness ==
    /\ pc = "done" /\ parsed = TRUE
    /\ Len(rawTLVs) = 2
    /\ rawTLVs[1].Type = 14 /\ rawTLVs[2].Type = 137
    /\ DOMAIN lsp.Tlv = {DYNAMIC_NAME}
    /\ err = NoErr

---------------------------------------------------------------------------
(* Properties of the extended IS reachability decoder. *)

\* The complete records of the value v of a type-22 TLV from position x, in
\* input order: the 7-byte neighbour ID, the 3-byte metric and the sub-TLV
\* bytes of each record that fits and whose sub-TLV bytes split.
RECURSIVE RecordsFrom(_, _)
RecordsFrom(v, x) ==
    IF x >= Len(v) \/ Len(v) < x + 11 THEN <<>>
    ELSE IF Len(v) < x + 11 + At(v, x + 10) THEN <<>>
    ELSE IF ~Splits(Slice(v, x + 11, x + 11 + At(v, x + 10))) THEN <<>>
    ELSE <<[nid |-> Hex2(At(v, x)) \o Hex2(At(v, x + 1)) \o "." \o Hex2(At(v, x + 2))
                    \o Hex2(At(v, x + 3)) \o "." \o Hex2(At(v, x + 4)) \o Hex2(At(v, x + 5))
                    \o "." \o Hex2(At(v, x + 6)),
             metric |-> <<At(v, x + 7), At(v, x + 8) * 256 + At(v, x + 9)>>,
             sub |-> Slice(v, x + 11, x + 11 + At(v, x + 10))]>>
         \o RecordsFrom(v, x + 11 + At(v, x + 10))

\* The complete records of every type-22 TLV of tlvs, in input order.
RECURSIVE RecordsOf(_)
RecordsOf(tlvs) ==
    IF tlvs = <<>> THEN <<>>
    ELSE (IF Head(tlvs).Type = 22 THEN RecordsFrom(Head(tlvs).Value, 0) ELSE <<>>)
         \o RecordsOf(Tail(tlvs))

\* The neighbours of the decoded LSP (none without a type-22 container).
NeighborsOf(L) ==
    IF EXTENDED_IS_REACHABILITY \in DOMAIN L.Tlv
    THEN L.Tlv[EXTENDED_IS_REACHABILITY].ExtendedIsReachability.Neighbor
    ELSE EmptyMap

\* C11: in a decoded LSP every neighbour's instance keys are exactly 0..k-1,
\* k being the number of complete records seen for that system ID within one
\* or across several type-22 TLVs, and instance j holds the metric and the
\* sub-TLVs of the j-th such record alone, in input order.
C11_InstancesNumberedInOrder ==
    (pc = "done" /\ parsed = TRUE) =>
        LET recs == RecordsOf(rawTLVs)
            nbrs == NeighborsOf(lsp)
        IN  /\ DOMAIN nbrs = {recs[i].nid : i \in DOMAIN recs}
            /\ \A nid \in DOMAIN nbrs :
                 LET Mine(r) == r.nid = nid
                     mine == SelectSeq(recs, Mine)
                 IN  /\ nbrs[nid].SystemId = nid
                     /\ DOMAIN nbrs[nid].Instance = 0 .. (Len(mine) - 1)
                     /\ \A j \in DOMAIN nbrs[nid].Instance :
                          /\ nbrs[nid].Instance[j].Id = j
                          /\ nbrs[nid].Instance[j].Metric = mine[j + 1].metric
                          /\ nbrs[nid].Instance[j].Subtlv =
                                parseExtendedISReachSubTLVs(
                                    [Id |-> j, Metric |-> mine[j + 1].metric, Subtlv |-> EmptyMap],
                                    TLVBytesToTLVs(mine[j + 1].sub).tlvs, NoErr).inst.Subtlv

\* Three records for one neighbour, two in one TLV and one in another: three
\* instances with the three metrics in input order, the sub-TLV of the first
\* record in instance 0 only.
C11_Witness ==
    /\ pc = "done" /\ parsed = TRUE
    /\ Len(rawTLVs) = 2
    /\ Len(rawTLVs[1].Value) = 28 /\ rawTLVs[2].Type = 22 /\ Len(rawTLVs[2].Value) = 11
    /\ DOMAIN NeighborsOf(lsp)["4900.0000.0000.01"].Instance = {0, 1, 2}
    /\ NeighborsOf(lsp)["4900.0000.0000.01"].Instance[0].Metric = <<0, 43>>
    /\ NeighborsOf(lsp)["4900.0000.0000.01"].Instance[1].Metric = <<0, 44>>
    /\ NeighborsOf(lsp)["4900.0000.0000.01"].Instance[2].Metric = <<0, 42>>
    /\ DOMAIN NeighborsOf(lsp)["4900.0000.0000.01"].Instance[0].Subtlv # {}
    /\ DOMAIN NeighborsOf(lsp)["4900.0000.0000.01"].Instance[1].Subtlv = {}

---------------------------------------------------------------------------
(* Properties of the reachability decoders. *)

\* The prefixes of the type-135 (t = 135) or type-236 container of the LSP.
ReachPrefixesOf(L, t) ==
    IF t = 135
    THEN IF EXTENDED_IPV4_REACHABILITY \in DOMAIN L.Tlv
         THEN L.Tlv[EXTENDED_IPV4_REACHABILITY].ExtendedIpv4Reachability.Prefix ELSE EmptyMap
    ELSE IF IPV6_REACHABILITY \in DOMAIN L.Tlv
         THEN L.Tlv[IPV6_REACHABILITY].Ipv6Reachability.Prefix ELSE EmptyMap

\* C12: when a reachability TLV (type 135 or 236) repeats an 'addr/len' key
\* already stored by an earlier TLV of the same type, the decoder returns a
\* non-nil error that is part of the error ISISBytesToLSP returns: the error
\* returned is more than the error of the earlier TLV alone.
C12_DuplicatePrefixReported ==
    (/\ pc = "done" /\ parsed = TRUE
     /\ Len(rawTLVs) = 2 /\ rawTLVs[1] = rawTLVs[2]
     /\ rawTLVs[1].Type \in {135, 236}
     /\ DOMAIN ReachPrefixesOf(lsp, rawTLVs[1].Type) # {})
        => err # processTLVs(LSPHeader(Rest, lsp.Flags), NoErr, <<rawTLVs[1]>>).pErr


\* The sub-TLV bytes of the first entry of the value v of a reachability TLV
\* of type t, when that entry is complete and announces sub-TLVs that split;
\* <<>> otherwise.
FirstEntrySubTLVs(t, v) ==
    LET sbit == IF t = 135 THEN 64 ELSE 32
        pfxLen == IF t = 135 THEN At(v, 4) % 64 ELSE At(v, 5)
        s == (IF t = 135 THEN 5 ELSE 6) + ((pfxLen + 7) \div 8)
    IN  IF Len(v) < (IF t = 135 THEN 5 ELSE 6) THEN <<>>
        ELSE IF (At(v, 4) \div sbit) % 2 = 0 \/ pfxLen > (IF t = 135 THEN 32 ELSE 128) THEN <<>>
        ELSE IF Len(v) < s + 1 THEN <<>>
        ELSE IF Len(v) < s + 1 + At(v, s) THEN <<>>
        ELSE IF ~Splits(Slice(v, s + 1, s + 1 + At(v, s))) THEN <<>>
        ELSE Slice(v, s + 1, s + 1 + At(v, s))

\* The first entry of the reachability TLV r carries a sub-TLV of a type the
\* decoder does not know (any type but 3).
UnknownSubTLVFirst(r) ==
    LET sub == FirstEntrySubTLVs(r.Type, r.Value)
    IN  \E p \in StartsFrom(sub, {0}) : p < Len(sub) /\ At(sub, p) # 3

\* C15: every diagnostic recorded while a reachability TLV is decoded is in
\* the error ISISBytesToLSP returns: when the first entry of the only TLV
\* carries a sub-TLV of unknown type, the error returned holds the
\* diagnostic of that sub-TLV, whatever the later entries do.
C15_DiagnosticsReported ==
    (/\ pc = "done" /\ parsed = TRUE
     /\ Len(rawTLVs) = 1 /\ rawTLVs[1].Type \in {135, 236}
     /\ UnknownSubTLVFirst(rawTLVs[1]))
        => \E i \in DOMAIN err :
              err[i] = (IF rawTLVs[1].Type = 135
                        THEN "unimplemented sub-TLV parsing in Extended IP Reachability TLV"
                        ELSE "unimplemented sub-TLV parsing in IPv6 Reachability TLV")

\* A reachability TLV whose only entry carries a sub-TLV of unknown type: the
\* diagnostic is returned.
C15_DiagnosticKeptAlone ==
    /\ pc = "done" /\ parsed = TRUE
    /\ Len(rawTLVs) = 1 /\ rawTLVs[1].Type = 135 /\ Len(rawTLVs[1].Value) = 8
    /\ UnknownSubTLVFirst(rawTLVs[1])
    /\ err = <<"unimplemented sub-TLV parsing in Extended IP Reachability TLV">>


\* The reachability TLV r holds one entry and nothing else, and that entry
\* carries one Prefix-SID sub-TLV (type 3) whose flags byte has VALUE (0x08)
\* clear and whose value has n bytes.
OnlyIndexPrefixSID(r, n) ==
    LET sub == FirstEntrySubTLVs(r.Type, r.Value)
        head == (IF r.Type = 135 THEN 5 + (((At(r.Value, 4) % 64) + 7) \div 8)
                 ELSE 6 + ((At(r.Value, 5) + 7) \div 8)) + 1
    IN  /\ Len(sub) = n + 2 /\ Len(r.Value) = head + n + 2
        /\ At(sub, 0) = 3 /\ At(sub, 1) = n
        /\ n >= 1 /\ (At(sub, 2) \div 8) % 2 = 0

\* C14: a Prefix-SID sub-TLV with VALUE clear whose value is shorter than 6
\* bytes is rejected: a diagnostic is returned and no Prefix-SID is added to
\* the prefix, so that no byte beyond the value contributes to a SID.
C14_ShortIndexRejected ==
    (/\ pc = "done" /\ parsed = TRUE
     /\ Len(rawTLVs) = 1 /\ rawTLVs[1].Type \in {135, 236}
     /\ \E n \in 1..5 : OnlyIndexPrefixSID(rawTLVs[1], n))
        => /\ err # NoErr
           /\ \A k \in DOMAIN ReachPrefixesOf(lsp, rawTLVs[1].Type) :
                 ReachPrefixesOf(lsp, rawTLVs[1].Type)[k].Subtlv = EmptyMap

\* A Prefix-SID sub-TLV with VALUE clear and a 6-byte value: the SID is the
\* 32-bit index of value bytes 2..5.
C14_IndexOfSixBytes ==
    /\ pc = "done" /\ parsed = TRUE /\ err = NoErr
    /\ Len(rawTLVs) = 1 /\ OnlyIndexPrefixSID(rawTLVs[1], 6)
    /\ DOMAIN ReachPrefixesOf(lsp, 135)["0.0.0.0/0"].Subtlv[IP_REACHABILITY_PREFIX_SID].PrefixSid
          = {<<0, 7>>}

---------------------------------------------------------------------------
(* Properties of the sub-TLV decoders of a record. *)

\* The adjacency SID (t = 31) or LAN adjacency SID (t = 32) entries of the
\* instance n (none without the sub-TLV that holds them).
AdjSIDEntriesOf(n, t) ==
    IF t = 31
    THEN IF IS_REACHABILITY_ADJ_SID \in DOMAIN n.Subtlv
         THEN FieldOr(n.Subtlv[IS_REACHABILITY_ADJ_SID], "AdjacencySid", EmptyMap) ELSE EmptyMap
    ELSE IF IS_REACHABILITY_ADJ_LAN_SID \in DOMAIN n.Subtlv
         THEN FieldOr(n.Subtlv[IS_REACHABILITY_ADJ_LAN_SID], "LanAdjacencySid", EmptyMap) ELSE EmptyMap

\* Where the SID bytes of an adjacency SID sub-TLV start: after flags and
\* weight, and for the LAN form after the 6-byte neighbour ID.
SIDStart(r) == IF r.Type = 31 THEN 2 ELSE 8

\* VALUE (0x20) and LOCAL (0x10) are both set and three bytes follow, or
\* both are clear and four bytes follow.
WellFormedAdjSID(r) ==
    /\ Len(r.Value) >= 1
    /\ LET V == (At(r.Value, 0) \div 32) % 2 = 1
           L == (At(r.Value, 0) \div 16) % 2 = 1
       IN  \/ V /\ L /\ Len(r.Value) = SIDStart(r) + 3
           \/ ~V /\ ~L /\ Len(r.Value) = SIDStart(r) + 4

\* The 24-bit label or the 32-bit index of a well-formed adjacency SID.
SIDOf(r) ==
    LET B(k) == At(r.Value, SIDStart(r) + k) IN
    IF Len(r.Value) = SIDStart(r) + 3 THEN <<B(0), B(1) * 256 + B(2)>>
    ELSE <<B(0) * 256 + B(1), B(2) * 256 + B(3)>>

\* The diagnostics of a rejected adjacency SID sub-TLV.
AdjSIDDiagnostic(m) ==
    m \in {"invalid length for adjacency SID", "invalid length for LAN AdjSID subTLV",
           "invalid length for adjacency SID containing label",
           "invalid length for adjacency SID containing index",
           "invalid combination of value and local flagByte"}

\* C13: of the adjacency SID (31) and LAN adjacency SID (32) sub-TLVs of a
\* record, exactly those with VALUE and LOCAL both set and 3 value bytes, or
\* both clear and 4 value bytes, produce an entry, holding the 24-bit label
\* or the 32-bit index; every other one produces a diagnostic and no entry.
C13_AdjSIDEntryIffWellFormed ==
    (pc = "isreach") =>
        /\ \A t \in {31, 32} :
             LET good == {i \in DOMAIN rawTLVs : rawTLVs[i].Type = t /\ WellFormedAdjSID(rawTLVs[i])}
                 entries == AdjSIDEntriesOf(ret.inst, t)
             IN  /\ DOMAIN entries = {SIDOf(rawTLVs[i]) : i \in good}
                 /\ \A i \in good :
                      (\A j \in good : j < i => SIDOf(rawTLVs[j]) # SIDOf(rawTLVs[i])) =>
                          /\ entries[SIDOf(rawTLVs[i])].Value = SIDOf(rawTLVs[i])
                          /\ entries[SIDOf(rawTLVs[i])].Weight = At(rawTLVs[i].Value, 1)
                          /\ t = 32 => entries[SIDOf(rawTLVs[i])].NeighborId =
                                Hex2(At(rawTLVs[i].Value, 2)) \o Hex2(At(rawTLVs[i].Value, 3)) \o "."
                                \o Hex2(At(rawTLVs[i].Value, 4)) \o Hex2(At(rawTLVs[i].Value, 5)) \o "."
                                \o Hex2(At(rawTLVs[i].Value, 6)) \o Hex2(At(rawTLVs[i].Value, 7))
                 /\ good = {} =>
                      (IF t = 31 THEN IS_REACHABILITY_ADJ_SID ELSE IS_REACHABILITY_ADJ_LAN_SID)
                          \notin DOMAIN ret.inst.Subtlv
        /\ Cardinality({i \in DOMAIN rawTLVs :
                            rawTLVs[i].Type \in {31, 32} /\ ~WellFormedAdjSID(rawTLVs[i])})
              = Len(SelectSeq(ret.err, AdjSIDDiagnostic))

\* A LAN adjacency SID with both flags and a 3-byte label next to an
\* adjacency SID with both flags and 4 bytes: one LAN entry, no adjacency SID
\* entry, one diagnostic.
C13_Witness ==
    /\ pc = "isreach"
    /\ Len(rawTLVs) = 2 /\ rawTLVs[1].Type = 31 /\ rawTLVs[2].Type = 32
    /\ ~WellFormedAdjSID(rawTLVs[1]) /\ WellFormedAdjSID(rawTLVs[2])
    /\ DOMAIN AdjSIDEntriesOf(ret.inst, 32) = {<<1, 515>>}
    /\ AdjSIDEntriesOf(ret.inst, 32)[<<1, 515>>].NeighborId = "0a0b.0c0d.0e0f"
    /\ DOMAIN AdjSIDEntriesOf(ret.inst, 31) = {}
    /\ ret.err = <<"invalid length for adjacency SID containing label">>


\* The setup-priority entries of the instance n (none without an unreserved
\* bandwidth sub-TLV).
SetupPriorityOf(n) ==
    IF IS_REACHABILITY_UNRESERVED_BANDWIDTH \in DOMAIN n.Subtlv
    THEN FieldOr(n.Subtlv[IS_REACHABILITY_UNRESERVED_BANDWIDTH], "SetupPriority", EmptyMap)
    ELSE EmptyMap

\* The diagnostic of a rejected unreserved bandwidth sub-TLV.
UnreservedBandwidthDiagnostic(m) == m = "invalid length for unreserved bandwidth TLV"

\* C18: an unreserved bandwidth sub-TLV (11) is accepted only with a value of
\* exactly 32 bytes; the instance then has the setup priorities 0..7,
\* priority p holding the value bytes 4p..4p+3 of the first accepted
\* sub-TLV; a rejected one adds a diagnostic and stores no setup priority.
C18_UnreservedBandwidthExactly32 ==
    (pc = "isreach") =>
        LET accepted == {i \in DOMAIN rawTLVs : rawTLVs[i].Type = 11 /\ Len(rawTLVs[i].Value) = 32}
            rejected == {i \in DOMAIN rawTLVs : rawTLVs[i].Type = 11 /\ Len(rawTLVs[i].Value) # 32}
            setup == SetupPriorityOf(ret.inst)
        IN  /\ accepted = {} =>
                 IS_REACHABILITY_UNRESERVED_BANDWIDTH \notin DOMAIN ret.inst.Subtlv
            /\ \A i \in accepted :
                 (\A j \in accepted : j >= i) =>
                     /\ DOMAIN setup = 0..7
                     /\ \A p \in 0..7 :
                          /\ setup[p].Priority = p
                          /\ setup[p].Bandwidth =
                                <<At(rawTLVs[i].Value, 4 * p), At(rawTLVs[i].Value, 4 * p + 1),
                                  At(rawTLVs[i].Value, 4 * p + 2), At(rawTLVs[i].Value, 4 * p + 3)>>
            /\ Cardinality(rejected) = Len(SelectSeq(ret.err, UnreservedBandwidthDiagnostic))

\* A 32-byte value whose byte k is k + 101: eight priorities, the last one
\* holding the last four bytes.
C18_Witness ==
    /\ pc = "isreach"
    /\ Len(rawTLVs) = 1 /\ rawTLVs[1].Type = 11 /\ Len(rawTLVs[1].Value) = 32
    /\ DOMAIN SetupPriorityOf(ret.inst) = 0..7
    /\ SetupPriorityOf(ret.inst)[0].Bandwidth = <<101, 102, 103, 104>>
    /\ SetupPriorityOf(ret.inst)[7].Bandwidth = <<129, 130, 131, 132>>
    /\ ret.err = NoErr

---------------------------------------------------------------------------
(* Properties of the router capability decoder. *)

\* The value v of a router capability TLV (type 242) holds, after the router
\* ID and the flags, one SR capability sub-TLV (type 2) of 9 bytes: flags and
\* one SRGB descriptor whose inner SID/Label sub-TLV announces n bytes.
OneSRGBDescriptor(v, n) ==
    /\ Len(v) = 16
    /\ At(v, 5) = 2 /\ At(v, 6) = 9
    /\ At(v, 12) = n

\* The sub-TLVs of instance 0 of the router capability TLV of the LSP.
CapabilitySubTLVsOf(L) ==
    IF ROUTER_CAPABILITY \in DOMAIN L.Tlv
    THEN IF 0 \in DOMAIN CapabilityOf(L.Tlv[ROUTER_CAPABILITY])
         THEN CapabilityOf(L.Tlv[ROUTER_CAPABILITY])[0].Subtlv ELSE EmptyMap
    ELSE EmptyMap

\* C19: an SRGB descriptor whose inner SID/Label length is neither 3 nor 4
\* is fatal for its SR capability sub-TLV: the decode returns with an error
\* and no descriptor of that sub-TLV is stored.
C19_BadSIDLengthFatal ==
    (/\ pc \in {"done", "panic"}
     /\ Len(rawTLVs) = 1 /\ rawTLVs[1].Type = 242
     /\ \E n \in Byte \ {3, 4} : OneSRGBDescriptor(rawTLVs[1].Value, n))
        => /\ pc = "done" /\ parsed = TRUE
           /\ err # NoErr
           /\ \A t \in DOMAIN CapabilitySubTLVsOf(lsp) :
                 "SegmentRoutingCapability" \notin DOMAIN CapabilitySubTLVsOf(lsp)[t]

\* An inner SID/Label length of 5 within the capacity of the value: the
\* sub-TLV is given up with an error and nothing of it is stored.
C19_FatalWithinCapacity ==
    /\ pc = "done" /\ parsed = TRUE
    /\ Len(rawTLVs) = 1 /\ rawTLVs[1].Type = 242
    /\ OneSRGBDescriptor(rawTLVs[1].Value, 5)
    /\ err = <<"invalid length SRGB start">>
    /\ \A t \in DOMAIN CapabilitySubTLVsOf(lsp) :
          "SegmentRoutingCapability" \notin DOMAIN CapabilitySubTLVsOf(lsp)[t]

---------------------------------------------------------------------------
(* Properties of RenderNotifications. *)

\* C16: RenderNotifications returns an error and no notifications when there
\* is no LSP or when the LSP has no LSP ID.
C16_NilInputRejected ==
    (pc = "rendered" /\ (IsNil(lsp) \/ "LspId" \notin DOMAIN lsp)) =>
        /\ ret.err # NoErr
        /\ ret.notifications = <<>>

\* An LSP with a hostname TLV and no LSP ID: an error and no notifications.
C16_Witness ==
    /\ pc = "rendered"
    /\ ~IsNil(lsp) /\ "LspId" \notin DOMAIN lsp /\ DOMAIN lsp.Tlv # {}
    /\ ret.err = <<"cannot handle nil LSP ID">>
    /\ ret.notifications = <<>>

\* C17: for an LSP with an LSP ID RenderNotifications returns one
\* notification and no error; the notification is atomic, its timestamp is
\* the time of the context in nanoseconds, and its prefix names the network
\* instance, the protocol ISIS with the instance name, the level and the LSP
\* ID, as strings without UsePathElem and as keyed elements with it.
C17_OneAtomicNotification ==
    (pc = "rendered" /\ ~IsNil(lsp) /\ "LspId" \in DOMAIN lsp) =>
        /\ ret.err = NoErr
        /\ Len(ret.notifications) = 1
        /\ ret.notifications[1].Atomic = TRUE
        /\ ret.notifications[1].Timestamp = args.Timestamp.sec * 1000000000 + args.Timestamp.nsec
        /\ ret.notifications[1].Update = lsp
        /\ IF args.UsePathElem
           THEN LET e == ret.notifications[1].Prefix.Elem IN
                /\ ret.notifications[1].Prefix.Element = <<>>
                /\ [k \in DOMAIN e |-> e[k].Name] =
                      <<"network-instances", "network-instance", "protocols", "protocol", "isis",
                        "levels", "level", "link-state-database", "lsp">>
                /\ e[2].Key = [name |-> args.NetworkInstance]
                /\ e[4].Key = [identifier |-> "ISIS", name |-> args.ProtocolInstance]
                /\ e[7].Key = [level_number |-> IF args.Level = 1 THEN "1" ELSE IF args.Level = 2 THEN "2" ELSE "3"]
                /\ e[9].Key = [lsp_id |-> lsp.LspId]
                /\ \A k \in {1, 3, 5, 6, 8} : e[k].Key = EmptyMap
           ELSE /\ ret.notifications[1].Prefix.Elem = <<>>
                /\ ret.notifications[1].Prefix.Element =
                      <<"network-instances", "network-instance", args.NetworkInstance,
                        "protocols", "protocol", "ISIS", args.ProtocolInstance,
                        "isis", "levels", "level",
                        IF args.Level = 1 THEN "1" ELSE IF args.Level = 2 THEN "2" ELSE "3",
                        "link-state-database", "lsp", lsp.LspId>>

\* A decoded LSP rendered with structured paths at level 2, one second and
\* 999999999 nanoseconds after the epoch.
C17_Witness ==
    /\ pc = "rendered"
    /\ ~IsNil(lsp) /\ "LspId" \in DOMAIN lsp
    /\ lsp.LspId = "4900.0110.0010.00-00" /\ DOMAIN lsp.Tlv # {}
    /\ args.UsePathElem /\ args.Level = 2 /\ args.NetworkInstance = "RED"
    /\ Len(ret.notifications) = 1
    /\ ret.notifications[1].Timestamp = 1999999999
    /\ ret.notifications[1].Atomic = TRUE
    /\ ret.notifications[1].Prefix.Elem[2].Key = [name |-> "RED"]
    /\ ret.notifications[1].Prefix.Elem[9].Key = [lsp_id |-> "4900.0110.0010.00-00"]

---------------------------------------------------------------------------
(* Properties of the decoding loops. *)

\* C20: every decoding loop ends: each iteration of the TLV splitter, of the
\* area address, extended IS reachability, extended IPv4 and IPv6
\* reachability loops and of the SRGB descriptor loop either leaves the loop
\* (by its end, a return, a break or a panic) or strictly increases the read
\* position; no loop runs more iterations than its input has bytes; and
\* every loop is left in the end.
C20_LoopsAdvanceAndEnd ==
    /\ [][pc' = "left" \/ idx' > idx]_vars
    /\ [](Len(calls) <= Len(tlvBytes))
    /\ <>(pc = "left")

\* An extended IPv4 reachability value of two entries, the second with
\* sub-TLVs: two iterations, then the loop ends at the end of the value.
C20_Witness ==
    /\ pc = "left"
    /\ "prefixes" \in DOMAIN ret /\ Cardinality(DOMAIN ret.prefixes) = 2
    /\ Len(calls) = 2 /\ calls[1] = 0 /\ calls[2] = 9
    /\ idx = Len(tlvBytes) /\ idx > 18

---------------------------------------------------------------------------
(* Properties of repeated sub-TLVs of a record. *)

\* The key of the sub-TLV map for the sub-TLV type t.
SubTLVKey(t) ==
    CASE t = 3 -> IS_REACHABILITY_ADMIN_GROUP
      [] t = 4 -> IS_REACHABILITY_LINK_ID
      [] t = 6 -> IS_REACHABILITY_IPV4_INTERFACE_ADDRESS
      [] t = 8 -> IS_REACHABILITY_IPV4_NEIGHBOR_ADDRESS
      [] t = 9 -> IS_REACHABILITY_MAX_LINK_BANDWIDTH
      [] t = 10 -> IS_REACHABILITY_MAX_RESERVABLE_BANDWIDTH
      [] t = 11 -> IS_REACHABILITY_UNRESERVED_BANDWIDTH
      [] t = 31 -> IS_REACHABILITY_ADJ_SID
      [] t = 32 -> IS_REACHABILITY_ADJ_LAN_SID
      [] t = 38 -> IS_REACHABILITY_RESIDUAL_BANDWIDTH

\* The value a sub-TLV of type 3, 4, 6, 8, 9, 10 or 38 carries.
CarriedValue(r) ==
    CASE r.Type = 3 -> U32(At(r.Value, 0), At(r.Value, 1), At(r.Value, 2), At(r.Value, 3))
      [] r.Type = 4 -> [Local |-> U32(At(r.Value, 0), At(r.Value, 1), At(r.Value, 2), At(r.Value, 3)),
                        Remote |-> U32(At(r.Value, 4), At(r.Value, 5), At(r.Value, 6), At(r.Value, 7))]
      [] r.Type \in {6, 8} -> Dec(At(r.Value, 0)) \o "." \o Dec(At(r.Value, 1)) \o "."
                              \o Dec(At(r.Value, 2)) \o "." \o Dec(At(r.Value, 3))
      [] r.Type \in {9, 10, 38} -> r.Value

\* The values, in input order, of the sub-TLVs of type t that have the
\* length of their type (8 bytes for type 4 and 4 bytes for the others).
RECURSIVE CarriedValues(_, _)
CarriedValues(subTLVs, t) ==
    IF subTLVs = <<>> THEN <<>>
    ELSE IF Head(subTLVs).Type = t /\ Len(Head(subTLVs).Value) = (IF t = 4 THEN 8 ELSE 4)
    THEN <<CarriedValue(Head(subTLVs))>> \o CarriedValues(Tail(subTLVs), t)
    ELSE CarriedValues(Tail(subTLVs), t)

\* The values the instance n holds for the sub-TLV type t, as a list: the
\* list of the container for types 3, 6 and 8, the one value for the others.
HeldValues(n, t) ==
    IF SubTLVKey(t) \notin DOMAIN n.Subtlv THEN <<>>
    ELSE LET c == n.Subtlv[SubTLVKey(t)] IN
         CASE t = 3 -> c.AdminGroup.AdminGroup
           [] t = 4 -> <<c.LinkId>>
           [] t = 6 -> c.Ipv4InterfaceAddress.Address
           [] t = 8 -> c.Ipv4NeighborAddress.Address
           [] t = 9 -> <<c.MaxLinkBandwidth.Bandwidth>>
           [] t = 10 -> <<c.MaxReservableLinkBandwidth.Bandwidth>>
           [] t = 38 -> <<c.ResidualBandwidth.Bandwidth>>

\* The diagnostic of a second sub-TLV for a list key.
DuplicateKeyDiagnostic(m) == m = "duplicate key for list"

\* C21 as claimed: every value of a repeated sub-TLV type is held, in input
\* order, by the one container of that type.
C21_NoRepeatedValueLost ==
    (pc = "isreach") =>
        \A t \in {3, 4, 6, 8, 9, 10, 38} : HeldValues(ret.inst, t) = CarriedValues(rawTLVs, t)

\* C21: the sub-TLV map of a neighbour instance holds one container per
\* sub-TLV type, under the key of its type.  The values of repeated sub-TLVs
\* of the list types 3, 6 and 8 are all appended, in input order, to the list
\* of that container; of repeated sub-TLVs of the single-valued types 4, 9,
\* 10 and 38 the container holds the value of the last one; of repeated
\* unreserved bandwidth sub-TLVs (11) every 32-byte one after the first adds
\* a duplicate-key diagnostic and is not stored.
C21_RepeatsAppendedOrReplaced ==
    (pc = "isreach") =>
        /\ \A k \in DOMAIN ret.inst.Subtlv :
             /\ ret.inst.Subtlv[k].Type = k
             /\ \E t \in {3, 4, 6, 8, 9, 10, 11, 31, 32, 38} : k = SubTLVKey(t)
        /\ \A t \in {3, 6, 8} : HeldValues(ret.inst, t) = CarriedValues(rawTLVs, t)
        /\ \A t \in {4, 9, 10, 38} :
             LET carried == CarriedValues(rawTLVs, t) IN
             HeldValues(ret.inst, t) = IF carried = <<>> THEN <<>> ELSE <<carried[Len(carried)]>>
        /\ LET accepted == {i \in DOMAIN rawTLVs : rawTLVs[i].Type = 11 /\ Len(rawTLVs[i].Value) = 32}
               sids == {i \in DOMAIN rawTLVs : rawTLVs[i].Type \in {31, 32} /\ WellFormedAdjSID(rawTLVs[i])}
               again == {i \in sids : \E j \in sids : j < i /\ rawTLVs[j].Type = rawTLVs[i].Type
                                                      /\ SIDOf(rawTLVs[j]) = SIDOf(rawTLVs[i])}
           IN  Len(SelectSeq(ret.err, DuplicateKeyDiagnostic))
                  = (IF accepted = {} THEN 0 ELSE Cardinality(accepted) - 1) + Cardinality(again)

\* Two IPv4 interface address sub-TLVs (6) in one record: both addresses in
\* one list of one container, in input order.
C21_Witness ==
    /\ pc = "isreach"
    /\ Len(rawTLVs) = 2 /\ rawTLVs[1].Type = 6 /\ rawTLVs[2].Type = 6
    /\ DOMAIN ret.inst.Subtlv = {IS_REACHABILITY_IPV4_INTERFACE_ADDRESS}
    /\ HeldValues(ret.inst, 6) = <<"10.0.0.2", "10.0.0.1">>
    /\ ret.err = NoErr

---------------------------------------------------------------------------
(* Properties of the order of the LSP flags. *)

\* The six flags with their masks, most significant bit first.
FlagsByBit == <<<<128, "PARTITION_REPAIR">>, <<64, "ATTACHED_ERROR">>, <<32, "ATTACHED_EXPENSE">>,
                <<16, "ATTACHED_DELAY">>, <<8, "ATTACHED_DEFAULT">>, <<4, "OVERLOAD">>>>

\* The flags set in the flags byte f, most significant bit first.
BitOrdered(f) ==
    LET set == SelectSeq(FlagsByBit, LAMBDA m : (f \div m[1]) % 2 = 1)
    IN  [k \in DOMAIN set |-> set[k][2]]

\* C22: the flag list of a decoded LSP is in bit order, most significant
\* bit first, so that the same flags byte always gives the same list.
C22_FlagsInBitOrder ==
    (pc \in {"tlvs", "done"} /\ ~IsNil(lsp)) => lsp.Flags = BitOrdered(At(Rest, 14))

---------------------------------------------------------------------------
(* Properties of the reads of the decoding loops. *)

\* C23: processAreaAddressTLV returns normally for every value, reading for
\* a record {L, L address bytes} at position x only the indices x..x+L, also
\* when L = 0: no iteration of its loop ends in a panic.
C23_AreaAddressReadsWithinRecord ==
    ("addrs" \in DOMAIN ret) => ~ret.panic


\* The value v of a router capability TLV (type 242) holds, after the router
\* ID and the flags, exactly one SR capability sub-TLV (type 2).
OneSRCapability(v) ==
    /\ Len(v) >= 7
    /\ At(v, 5) = 2 /\ At(v, 6) = Len(v) - 7

\* The SR capability sub-TLV of v is empty, or the SID/Label length byte of
\* its first descriptor is larger than the number of bytes after it.
EmptyOrOverlongSRCapability(v) ==
    \/ Len(v) = 7
    \/ Len(v) >= 13 /\ At(v, 12) > Len(v) - 13

\* C24: an SR capability sub-TLV with an empty value, or with a descriptor
\* whose SID/Label length byte is larger than the number of bytes remaining,
\* is reported as an error, with no access out of the range of the value:
\* the decode returns with an error instead of panicking.
C24_SRCapabilityReadsWithinValue ==
    (/\ pc \in {"done", "panic"}
     /\ Len(rawTLVs) = 1 /\ rawTLVs[1].Type = 242
     /\ OneSRCapability(rawTLVs[1].Value)
     /\ EmptyOrOverlongSRCapability(rawTLVs[1].Value))
        => pc = "done" /\ err # NoErr


\* C25: an IPv6 reachability entry whose prefix-length byte is greater than
\* 128 is rejected with an error and stores no entry, and the 16-byte address
\* buffer is never written past its end: the decode of a TLV (type 236)
\* whose first entry has such a prefix length returns with an error and no
\* prefix.
C25_LongIPv6PrefixRejected ==
    (/\ pc \in {"done", "panic"}
     /\ Len(rawTLVs) = 1 /\ rawTLVs[1].Type = 236
     /\ Len(rawTLVs[1].Value) >= 6 /\ At(rawTLVs[1].Value, 5) > 128)
        => /\ pc = "done" /\ err # NoErr
           /\ DOMAIN ReachPrefixesOf(lsp, 236) = {}

---------------------------------------------------------------------------
(* Properties of the Prefix-SID sub-TLVs of a reachability entry. *)

\* The value v of a reachability TLV of type t is one entry whose sub-TLVs
\* are all Prefix-SID sub-TLVs (type 3) of 6 bytes holding an index (VALUE,
\* mask 0x08, clear).
OnlyPrefixSIDIndexes(t, v) ==
    LET sub == FirstEntrySubTLVs(t, v)
        pfxLen == IF t = 135 THEN At(v, 4) % 64 ELSE At(v, 5)
    IN  /\ Len(sub) > 0 /\ Len(sub) % 8 = 0
        /\ Len(v) = (IF t = 135 THEN 5 ELSE 6) + ((pfxLen + 7) \div 8) + 1 + Len(sub)
        /\ \A k \in 0..(Len(sub) \div 8 - 1) :
              /\ At(sub, 8 * k) = 3 /\ At(sub, 8 * k + 1) = 6
              /\ (At(sub, 8 * k + 2) \div 8) % 2 = 0

\* The indexes of the Prefix-SID sub-TLVs of such a value.
PrefixSIDIndexes(t, v) ==
    LET sub == FirstEntrySubTLVs(t, v)
    IN  {U32(At(sub, 8 * k + 4), At(sub, 8 * k + 5), At(sub, 8 * k + 6), At(sub, 8 * k + 7)) :
            k \in 0..(Len(sub) \div 8 - 1)}

\* The keys of the Prefix-SID map of the prefix p (none without the
\* Prefix-SID sub-TLV).
PrefixSIDKeysOf(p) ==
    IF IP_REACHABILITY_PREFIX_SID \in DOMAIN p.Subtlv
    THEN DOMAIN FieldOr(p.Subtlv[IP_REACHABILITY_PREFIX_SID], "PrefixSid", EmptyMap)
    ELSE {}

\* C26: every Prefix-SID sub-TLV that parses inside an extended IPv4 or IPv6
\* reachability entry is stored in the Prefix-SID map of that prefix under
\* its SID value, and adds no diagnostic: an entry carrying two Prefix-SID
\* sub-TLVs with different values ends with both values in the map.
C26_EveryPrefixSIDStored ==
    (/\ pc = "done" /\ parsed = TRUE
     /\ Len(rawTLVs) = 1 /\ rawTLVs[1].Type \in {135, 236}
     /\ OnlyPrefixSIDIndexes(rawTLVs[1].Type, rawTLVs[1].Value))
        => /\ err = NoErr
           /\ \E k \in DOMAIN ReachPrefixesOf(lsp, rawTLVs[1].Type) :
                 /\ DOMAIN ReachPrefixesOf(lsp, rawTLVs[1].Type) = {k}
                 /\ PrefixSIDKeysOf(ReachPrefixesOf(lsp, rawTLVs[1].Type)[k])
                       = PrefixSIDIndexes(rawTLVs[1].Type, rawTLVs[1].Value)

---------------------------------------------------------------------------
(* Properties of truncated extended IS reachability records. *)

\* The record at position x of the value v is truncated: fewer than 11
\* bytes remain, its sub-TLV length byte exceeds the bytes that remain, or
\* its sub-TLV bytes do not split.
TruncatedRecord(v, x) ==
    \/ Len(v) < x + 11
    \/ Len(v) < x + 11 + At(v, x + 10)
    \/ ~Splits(Slice(v, x + 11, x + 11 + At(v, x + 10)))

\* The diagnostics of a truncated record.
TruncationDiagnostic(m) ==
    m \in {"invalid length IS Reachability TLV, byte offset, total TLV length",
           "invalid length IS Reachability TLV, byte offset, subTLV length",
           "invalid subTLVs in ExtendedISReachability TLV"}

\* C27: an iteration of the extended IS reachability loop that meets a
\* truncated record adds one diagnostic to the diagnostics recorded so far
\* and leaves the loop, and the neighbours with their instances stay as the
\* earlier records of the TLV made them: no instance is made for the
\* truncated record.
C27_TruncatedRecordStopsTLV ==
    [][(/\ pc = "processExtendedISReachabilityTLV"
        /\ idx < Len(tlvBytes)
        /\ TruncatedRecord(tlvBytes, idx))
          => /\ pc' = "left"
             /\ ret'.neighbors = ret.neighbors
             /\ Len(ret'.err) = Len(ret.err) + 1
             /\ SubSeq(ret'.err, 1, Len(ret.err)) = ret.err
             /\ TruncationDiagnostic(ret'.err[Len(ret'.err)])]_vars

\* A complete record, then a record whose sub-TLV length byte is 3 with two
\* bytes left: the second iteration leaves the loop at position 11 of 24
\* with the diagnostic, and the neighbour of the first record keeps its one
\* instance.
C27_Witness ==
    /\ pc = "left"
    /\ "neighbors" \in DOMAIN ret
    /\ Len(tlvBytes) = 24 /\ calls = <<0, 11>> /\ idx = 11
    /\ tlvBytes[22] = 3
    /\ ret.err = <<"invalid length IS Reachability TLV, byte offset, subTLV length">>
    /\ DOMAIN ret.neighbors = {"4900.0000.0000.01"}
    /\ DOMAIN ret.neighbors["4900.0000.0000.01"].Instance = {0}

---------------------------------------------------------------------------
(* Properties of rejected router capability TLVs. *)

\* The capability instances of the LSP (none without a router capability
\* TLV).
CapabilitiesOf(L) ==
    IF ROUTER_CAPABILITY \in DOMAIN L.Tlv THEN CapabilityOf(L.Tlv[ROUTER_CAPABILITY]) ELSE EmptyMap

\* C28: a router capability TLV (type 242) whose value is shorter than 5
\* bytes is rejected with an error and adds no capability instance: after a
\* decode the capability instances are numbered 0..k-1, k being the number of
\* router capability TLVs of at least 5 bytes.
C28_ShortCapabilityAddsNoInstance ==
    (pc = "done" /\ parsed = TRUE) =>
        /\ (\E i \in DOMAIN rawTLVs : rawTLVs[i].Type = 242 /\ Len(rawTLVs[i].Value) < 5)
              => err # NoErr
        /\ DOMAIN CapabilitiesOf(lsp) =
              0 .. (Cardinality({i \in DOMAIN rawTLVs :
                                    rawTLVs[i].Type = 242 /\ Len(rawTLVs[i].Value) >= 5}) - 1)

---------------------------------------------------------------------------
(* Properties of the offset of ISISBytesToLSP. *)

\* C29: ISISBytesToLSP returns normally for every offset: an offset that is
\* negative or greater than the length of the input ends the call with no
\* LSP, parsed = false and an error, never with a panic.
C29_EveryOffsetHandled ==
    ~OffsetOK(lspBytes, offset) =>
        /\ pc # "panic"
        /\ pc = "done" => (IsNil(lsp) /\ parsed = FALSE /\ err # NoErr)

---------------------------------------------------------------------------
(* Properties of the entries of the Extended IPv4 Reachability TLV. *)

\* The entry at the read position of the loop of processExtendedIPReachTLV,
\* read from the bytes: its control byte, prefix length, number of prefix
\* bytes and the key and fields it is to be stored with.
EntryControl == tlvBytes[idx + 5]

EntryPrefixLength == EntryControl % 64

EntryPrefixBytes == (EntryPrefixLength + 7) \div 8

EntryAddressByte(j) == IF j <= EntryPrefixBytes THEN tlvBytes[idx + 5 + j] ELSE 0

EntryKey ==
    Dec(EntryAddressByte(1)) \o "." \o Dec(EntryAddressByte(2)) \o "." \o Dec(EntryAddressByte(3))
        \o "." \o Dec(EntryAddressByte(4)) \o "/" \o Dec(EntryPrefixLength)

EntryMetric ==
    <<tlvBytes[idx + 1] * 256 + tlvBytes[idx + 2], tlvBytes[idx + 3] * 256 + tlvBytes[idx + 4]>>

EntryAtPosition ==
    pc = "processExtendedIPReachTLV" /\ idx < Len(tlvBytes) /\ Len(tlvBytes) >= idx + 5

EntryComplete ==
    EntryAtPosition /\ EntryPrefixLength <= 32 /\ Len(tlvBytes) >= idx + 5 + EntryPrefixBytes

\* The entry at the read position carries no sub-TLVs, or its sub-TLV length
\* byte is there, the sub-TLV bytes it announces are there and they split.
EntryEnd == idx + 5 + EntryPrefixBytes

EntryWellFramed ==
    \/ EntryControl % 128 < 64
    \/ /\ Len(tlvBytes) >= EntryEnd + 1
       /\ Len(tlvBytes) >= EntryEnd + 1 + tlvBytes[EntryEnd + 1]
       /\ Splits(SubSeq(tlvBytes, EntryEnd + 2, EntryEnd + 1 + tlvBytes[EntryEnd + 1]))

\* The position after the entry at the read position and its sub-TLVs.
EntryNext == IF EntryControl % 128 < 64 THEN EntryEnd ELSE EntryEnd + 1 + tlvBytes[EntryEnd + 1]

\* C30: an iteration on an entry whose prefix length N (the low six bits of
\* the control byte) is above 32 leaves the loop with an error and stores
\* nothing.  An iteration on a complete entry with N <= 32 stores at most
\* one entry, under the key 'a.b.c.d/N' of its next ceil(N/8) bytes
\* left-aligned in four zero bytes, with the big-endian metric of its first
\* four bytes, up_down from mask 0x80 and s_bit from mask 0x40 of the control
\* byte; it stores that entry and goes on after it whenever the key is new
\* and the entry carries no sub-TLVs or a well-framed block of them; it
\* stores nothing otherwise, and it changes no entry stored before.
C30_IPv4EntryDecoded ==
    [][ /\ (EntryAtPosition /\ EntryPrefixLength > 32) =>
              /\ pc' = "left"
              /\ ret'.err # NoErr
              /\ ~ret'.panic
              /\ ret'.prefixes = ret.prefixes
        /\ EntryComplete =>
              /\ (EntryKey \notin DOMAIN ret.prefixes /\ EntryWellFramed) =>
                    /\ EntryKey \in DOMAIN ret'.prefixes
                    /\ pc' = pc
                    /\ idx' = EntryNext
              /\ ~(EntryKey \notin DOMAIN ret.prefixes /\ EntryWellFramed) =>
                    /\ ret'.prefixes = ret.prefixes
                    /\ pc' = "left"
              /\ \A k \in DOMAIN ret.prefixes :
                    k \in DOMAIN ret'.prefixes /\ ret'.prefixes[k] = ret.prefixes[k]
              /\ ret'.prefixes # ret.prefixes =>
                    /\ EntryKey \notin DOMAIN ret.prefixes
                    /\ DOMAIN ret'.prefixes = DOMAIN ret.prefixes \cup {EntryKey}
                    /\ ret'.prefixes[EntryKey].Prefix = EntryKey
                    /\ ret'.prefixes[EntryKey].Metric = EntryMetric
                    /\ ret'.prefixes[EntryKey].UpDown = (EntryControl >= 128)
                    /\ ret'.prefixes[EntryKey].SBit = (EntryControl % 128 >= 64)
      ]_vars

\* The loop has stored the /24 entry 10.1.255.0/24 with metric 65541, both
\* bits and its Prefix-SID sub-TLV, has gone on after the sub-TLVs, and has
\* then been left on an entry of prefix length 63.
C30_Witness ==
    /\ pc = "left"
    /\ tlvBytes = <<0, 1, 0, 5, 216, 10, 1, 255, 7, 3, 5, 8, 0, 0, 0, 7,
                    0, 0, 0, 42, 63, 0, 0, 0, 0, 0, 0, 0, 0, 0>>
    /\ calls = <<0, 16>>
    /\ DOMAIN ret.prefixes = {"10.1.255.0/24"}
    /\ ret.prefixes["10.1.255.0/24"].Metric = <<1, 5>>
    /\ ret.prefixes["10.1.255.0/24"].UpDown
    /\ ret.prefixes["10.1.255.0/24"].SBit
    /\ DOMAIN ret.prefixes["10.1.255.0/24"].Subtlv = {IP_REACHABILITY_PREFIX_SID}
    /\ ret.err # NoErr

=============================================================================
